---------------------------- MODULE Spec2Model ----------------------------
(***************************************************************************)
(* A model of the bot-or-not evaluation core:                              *)
(*   - python/fine_tuning/data.py     stratified_split, filter_examples,   *)
(*                                    load_examples                        *)
(*   - python/fine_tuning/cli.py      prepare_data, _split_write           *)
(*   - python/fine_tuning/constants.py PAIR_FOLDS                          *)
(*   - python/fine_tuning/metrics.py  compute_metrics                      *)
(*   - main.py                        the run-checker                      *)
(*   - python/fine_tuning/openai_api.py normalize_label, classify_messages,*)
(*                                    wait_for_fine_tuning_job             *)
(*   - python/fine_tuning/cli.py      evaluate_records, run_cv,            *)
(*                                    train_final                          *)
(*                                                                         *)
(* Each subsystem has its own specification (SpecSplit, SpecPrepare,       *)
(* SpecMetrics, SpecChecker, SpecNormalize, SpecEvaluate, SpecLoad,        *)
(* SpecWait, SpecTrain, SpecRegistry).  The variables of the other         *)
(* subsystems stay at                                                      *)
(* their idle values.                                                      *)
(*                                                                         *)
(* Conventions.                                                            *)
(*  - A user_id is a string in the code and is compared as a string.  In   *)
(*    the splitter it is modelled by a one-digit natural number, whose     *)
(*    numeric order is its string order.                                   *)
(*  - A float is modelled exactly: val_fraction as a pair <<num, den>>,    *)
(*    a quotient a / b as the pair of a and b (see TrueDiv).               *)
(*  - random.Random is the Python library's Mersenne Twister.  It is       *)
(*    modelled by a full-period generator of 4-bit words; getrandbits,     *)
(*    _randbelow and shuffle on top of it follow CPython's algorithms.     *)
(***************************************************************************)
EXTENDS Integers, Sequences, FiniteSets, TLC

VARIABLES
    \* ---- stratified_split, called twice on the same example set
    examples,        \* the input list of the first call
    val_fraction,    \* <<num, den>>
    seed,
    split_pc,        \* "idle" | "ready" | "called" | "recalled"
    examples2,       \* the input list of the second call (a reordering)
    split_out,       \* the results of the calls made so far
    \* ---- prepare_data (examples, val_fraction and seed as above)
    datasets,        \* the dataset ids asked for
    prep_pc,         \* "idle" | "start" | "folds" | "done" | "error"
    index,           \* the position of the loop over PAIR_FOLDS
    folds_out,       \* the per-fold dicts returned by _split_write
    prepared,        \* the files under prepared_dir: path -> rows
    \* ---- compute_metrics, called twice on the same points
    points,          \* the input list of the first call
    met_pc,          \* "idle" | "ready" | "called" | "recalled"
    points2,         \* the input list of the second call (a reordering)
    met_out,         \* the Metrics returned by the calls made so far
    \* ---- main.py, the run-checker
    argv,            \* the command line after the program name
    run_exists,      \* whether the run file exists
    lines,           \* the stripped lines of the run file
    dataset_files,   \* dataset id -> the dataset's JSON and bot files
    chk_pc,          \* "idle" | "open" | "truth" | "predicted" | "score" |
                     \* "done" | "exit1"
    dataset_ids,     \* the parsed datasets declaration
    truth,           \* user id -> is_bot
    users,           \* user id -> user metadata
    predicted_bots,  \* the set of predicted bot ids
    unknown,         \* the predicted ids that are in no dataset
    counts,          \* tp, fp, fn, tn, total, the percentages and the score
    printed,         \* what was printed, in order
    results,         \* the files under results/: name -> report
    \* ---- openai_api.py normalize_label
    raw_text,        \* the classifier's text, a sequence of characters
    norm_pc,         \* "idle" | "ready" | "called"
    norm_out,        \* the label returned, "None" for None
    \* ---- cli.py evaluate_records
    records,         \* the argument: the eval records
    max_samples,
    eval_pc,         \* "idle" | "ready" | "loop" | "waiting" | "done" | "error"
    eval_records,    \* records after the truncation
    eval_index,      \* how many records the loop has been through
    api_log,         \* the classifier requests and responses, in order
    eval_points,     \* points
    predicted_bot_ids,
    invalid_output_count,
    invalid_examples,
    eval_out,        \* the dict returned
    \* ---- data.py load_examples
    load_ids,        \* the argument dataset_ids
    disk,            \* DATASETS_DIR: dataset id -> its JSON and bot files
    load_pc,         \* "idle" | "ready" | "done"
    load_out,        \* the error raised, or the list returned
    \* ---- openai_api.py wait_for_fine_tuning_job
    job_status,      \* the status of the job at the remote service
    poll_seconds,
    max_wait_minutes,
    wait_pc,         \* "idle" | "poll" | "sleep" | "returned" | "timeout"
    clock,           \* time.monotonic() - started, in seconds
    observed,        \* the status of the job last retrieved, "" before
    requests,        \* the kinds of request sent to the remote service
    \* ---- cli.py run_cv and train_final
    command,         \* "run_cv" | "train_final"
    no_wait,
    skip_baseline,
    missing_file,    \* the split directory that lacks a required file, or "none"
    train_pc,        \* "idle" | "fold" | "cv_waiting" | "cv_evaluate" |
                     \* "final_submit" | "final_waiting" | "done" | "error"
    fold_index,      \* the position of the loop over PAIR_FOLDS
    submitted,       \* the fine-tuning jobs created, by split name
    jobs,            \* the jobs wait_for_fine_tuning_job has returned
    fold_reports,
    evaluations,     \* the evaluate_records calls made: split name and model
    run_files,       \* the files written under artifacts/: name -> content
    registry,        \* model_registry.json
    train_error,     \* the exception raised to the caller, "none" if none
    \* ---- cli.py: several invocations of run_cv / train_final, one registry
    reg_file,        \* model_registry.json
    serialized,      \* TRUE when the operator runs one invocation at a time
    reg_cmd,         \* invocation -> "run_cv" | "train_final"
    reg_pc,          \* invocation -> "idle" | "running" | "loaded" | "saved" |
                     \* "returned"
    reg_mem          \* invocation -> its local variable registry

splitVars == <<examples, val_fraction, seed, split_pc, examples2, split_out>>
prepVars == <<datasets, prep_pc, index, folds_out, prepared>>

metVars == <<points, met_pc, points2, met_out>>

chkInputs == <<argv, run_exists, lines, dataset_files>>
chkVars == <<chkInputs, chk_pc, dataset_ids, truth, users, predicted_bots,
             unknown, counts, printed, results>>

coreVars == <<splitVars, prepVars, metVars, chkVars>>

normVars == <<raw_text, norm_pc, norm_out>>

\* The variables of the subsystems that talk to the remote service.
evalVars == <<records, max_samples, eval_pc, eval_records, eval_index, api_log,
              eval_points, predicted_bot_ids, invalid_output_count,
              invalid_examples, eval_out>>

loadVars == <<load_ids, disk, load_pc, load_out>>

waitVars == <<job_status, poll_seconds, max_wait_minutes, wait_pc, clock,
              observed, requests>>

trainVars == <<command, no_wait, skip_baseline, missing_file, train_pc,
               fold_index, submitted, jobs, fold_reports, evaluations,
               run_files, registry, train_error>>

regVars == <<reg_file, serialized, reg_cmd, reg_pc, reg_mem>>

apiVars == <<normVars, evalVars, loadVars, waitVars, trainVars, regVars>>

vars == <<coreVars, apiVars>>

-----------------------------------------------------------------------------
(* Bounds *)

MaxUsers == 5       \* examples in one stratified_split input
MaxLoaded == 3      \* examples loaded by one prepare_data run
MaxPermLen == 3     \* longest input that is re-run in every other order
MaxPoints == 6      \* classification points in one compute_metrics input
MaxRunLines == 2    \* lines of a run file after its first line
NumSeeds == 2       \* seeds 0 .. NumSeeds-1
MaxPieces == 3      \* pieces of one raw classifier text
MaxRecords == 12    \* eval records handed to evaluate_records
MaxFileUsers == 2   \* users listed in one dataset JSON read by load_examples
MaxClock == 150     \* seconds after which the waiting time is no longer counted
NumInvocations == 2 \* invocations of run_cv / train_final on one registry

-----------------------------------------------------------------------------
(* The idle values: what a subsystem's variables hold while another runs *)

\* The empty mapping: no file, no dict entry.
NoFiles == [p \in {} |-> <<>>]

SplitIdle ==
    /\ examples = <<>>
    /\ val_fraction = <<1, 2>>
    /\ seed = 0
    /\ split_pc = "idle"
    /\ examples2 = <<>>
    /\ split_out = <<>>

PrepIdle ==
    /\ datasets = <<>>
    /\ prep_pc = "idle"
    /\ index = 0
    /\ folds_out = <<>>
    /\ prepared = NoFiles

MetIdle ==
    /\ points = <<>>
    /\ met_pc = "idle"
    /\ points2 = <<>>
    /\ met_out = <<>>

\* tp = fp = fn = tn = 0 and so on, before the checker has scored anything.
NoCounts == [tp |-> 0, fp |-> 0, fn |-> 0, tn |-> 0, total |-> 0,
             actual_bots |-> 0, actual_humans |-> 0, score |-> 0,
             pct_correct |-> [num |-> 0, den |-> 1, error |-> "none"],
             pct_fp |-> [num |-> 0, den |-> 1, error |-> "none"],
             pct_fn |-> [num |-> 0, den |-> 1, error |-> "none"]]

\* The checker's working state before main() has computed anything.
ChkBlank ==
    /\ dataset_ids = <<>>
    /\ truth = NoFiles
    /\ users = NoFiles
    /\ predicted_bots = {}
    /\ unknown = {}
    /\ counts = NoCounts
    /\ printed = <<>>
    /\ results = NoFiles

ChkIdle ==
    /\ argv = <<>>
    /\ run_exists = FALSE
    /\ lines = <<>>
    /\ dataset_files = NoFiles
    /\ chk_pc = "idle"
    /\ ChkBlank

CoreIdle == SplitIdle /\ PrepIdle /\ MetIdle /\ ChkIdle

NormIdle ==
    /\ raw_text = <<>>
    /\ norm_pc = "idle"
    /\ norm_out = "None"

EvalIdle ==
    /\ records = <<>>
    /\ max_samples = 0
    /\ eval_pc = "idle"
    /\ eval_records = <<>>
    /\ eval_index = 0
    /\ api_log = <<>>
    /\ eval_points = <<>>
    /\ predicted_bot_ids = <<>>
    /\ invalid_output_count = 0
    /\ invalid_examples = <<>>
    /\ eval_out = NoFiles

LoadIdle ==
    /\ load_ids = <<>>
    /\ disk = NoFiles
    /\ load_pc = "idle"
    /\ load_out = NoFiles

WaitIdle ==
    /\ job_status = "queued"
    /\ poll_seconds = 30
    /\ max_wait_minutes = 0
    /\ wait_pc = "idle"
    /\ clock = 0
    /\ observed = ""
    /\ requests = {}

TrainIdle ==
    /\ command = "run_cv"
    /\ no_wait = FALSE
    /\ skip_baseline = FALSE
    /\ missing_file = "none"
    /\ train_pc = "idle"
    /\ fold_index = 0
    /\ submitted = <<>>
    /\ jobs = <<>>
    /\ fold_reports = <<>>
    /\ evaluations = <<>>
    /\ run_files = NoFiles
    /\ registry = NoFiles
    /\ train_error = "none"

RegIdle ==
    /\ reg_file = NoFiles
    /\ serialized = TRUE
    /\ reg_cmd = <<>>
    /\ reg_pc = <<>>
    /\ reg_mem = <<>>

ApiIdle == NormIdle /\ EvalIdle /\ LoadIdle /\ WaitIdle /\ TrainIdle /\ RegIdle

\* Every subsystem but x is idle, and stays as it is during a step of x.
OthersIdle(x) ==
    /\ CoreIdle
    /\ IF x = "norm" THEN TRUE ELSE NormIdle
    /\ IF x = "eval" THEN TRUE ELSE EvalIdle
    /\ IF x = "load" THEN TRUE ELSE LoadIdle
    /\ IF x = "wait" THEN TRUE ELSE WaitIdle
    /\ IF x = "train" THEN TRUE ELSE TrainIdle
    /\ IF x = "reg" THEN TRUE ELSE RegIdle

OthersUnchanged(x) ==
    /\ UNCHANGED coreVars
    /\ IF x = "norm" THEN TRUE ELSE UNCHANGED normVars
    /\ IF x = "eval" THEN TRUE ELSE UNCHANGED evalVars
    /\ IF x = "load" THEN TRUE ELSE UNCHANGED loadVars
    /\ IF x = "wait" THEN TRUE ELSE UNCHANGED waitVars
    /\ IF x = "train" THEN TRUE ELSE UNCHANGED trainVars
    /\ IF x = "reg" THEN TRUE ELSE UNCHANGED regVars

-----------------------------------------------------------------------------
(* Data model: data.py UserExample, reduced to the fields the split reads *)

Labels == {"BOT", "HUMAN"}
Langs == {"en", "fr"}

UserExample(uid, ds, lang, label) ==
    [user_id |-> uid, dataset_id |-> ds, lang |-> lang, label |-> label]

\* The val_fraction values tried: 0 and 1 are the invalid ends of the range.
ValFractions ==
    { <<0, 1>>, <<1, 10>>, <<1, 4>>, <<1, 2>>, <<3, 4>>, <<1, 1>> }

Range(s) == { s[i] : i \in DOMAIN s }

UserIdSet(exs) == { exs[i].user_id : i \in DOMAIN exs }

\* data.py overlap_size
OverlapSize(a, b) == Cardinality(UserIdSet(a) \cap UserIdSet(b))

-----------------------------------------------------------------------------
(* list.sort(key=lambda ex: ex.user_id): a stable sort on user_id *)

RECURSIVE InsertByUserId(_, _)
InsertByUserId(sorted, ex) ==
    IF sorted = <<>> THEN <<ex>>
    ELSE IF Head(sorted).user_id <= ex.user_id
         THEN <<Head(sorted)>> \o InsertByUserId(Tail(sorted), ex)
         ELSE <<ex>> \o sorted

RECURSIVE SortByUserId(_)
SortByUserId(exs) ==
    IF exs = <<>> THEN <<>>
    ELSE InsertByUserId(SortByUserId(SubSeq(exs, 1, Len(exs) - 1)), exs[Len(exs)])

-----------------------------------------------------------------------------
(* random.Random(seed), getrandbits, _randbelow, shuffle *)

\* The generator's state after seeding.
RngSeed(s) == s % 16

\* One step of the generator: the next state, which is also the word drawn.
RngStep(state) == (5 * state + 3) % 16

RECURSIVE Pow2(_)
Pow2(k) == IF k = 0 THEN 1 ELSE 2 * Pow2(k - 1)

RECURSIVE BitLength(_)
BitLength(n) == IF n = 0 THEN 0 ELSE 1 + BitLength(n \div 2)

\* getrandbits(k): the top k bits of the next word.
GetRandBits(state, k) ==
    LET next == RngStep(state)
    IN  [value |-> next \div Pow2(4 - k), state |-> next]

\* _randbelow_with_getrandbits(n): draw k = n.bit_length() bits until < n.
RECURSIVE RandBelow(_, _)
RandBelow(state, n) ==
    LET r == GetRandBits(state, BitLength(n))
    IN  IF r.value < n THEN r ELSE RandBelow(r.state, n)

Swap(x, i, j) == [x EXCEPT ![i] = x[j], ![j] = x[i]]

\* shuffle(x): for i in reversed(range(1, len(x))): j = randbelow(i + 1);
\* x[i], x[j] = x[j], x[i].  i is 0-based in the code, i + 1 is its index here.
RECURSIVE ShuffleFrom(_, _, _)
ShuffleFrom(state, x, i) ==
    IF i < 1 THEN [list |-> x, state |-> state]
    ELSE LET r == RandBelow(state, i + 1)
         IN  ShuffleFrom(r.state, Swap(x, i + 1, r.value + 1), i - 1)

Shuffle(state, x) == ShuffleFrom(state, x, Len(x) - 1)

-----------------------------------------------------------------------------
(* stratified_split *)

\* sorted(by_bucket): the (label, lang) keys in tuple order.
BucketKeysSorted ==
    << <<"BOT", "en">>, <<"BOT", "fr">>, <<"HUMAN", "en">>, <<"HUMAN", "fr">> >>

InBucket(ex, key) == ex.label = key[1] /\ ex.lang = key[2]

\* by_bucket[key]: the examples of the key, in input order.
ByBucket(exs, key) == SelectSeq(exs, LAMBDA ex : InBucket(ex, key))

\* Mutant of SortedBucket: the bucket is shuffled in input order, unsorted.
UnsortedBucket(exs, key) == ByBucket(exs, key)

\* sorted(by_bucket[bucket_key], key=lambda ex: ex.user_id)
SortedBucket(exs, key) == SortByUserId(ByBucket(exs, key))

\* round(x) for x = num / den >= 0: to the nearest integer, a tie to the even one.
PyRound(num, den) ==
    LET fl == num \div den
        r2 == 2 * (num - fl * den)
    IN  IF r2 > den THEN fl + 1
        ELSE IF r2 < den THEN fl
        ELSE IF fl % 2 = 0 THEN fl ELSE fl + 1

Max2(a, b) == IF a >= b THEN a ELSE b
Min2(a, b) == IF a <= b THEN a ELSE b

\* Mutant of NVal: the cap at len(bucket) - 1 is missing.
NValNoCap(k, vf) ==
    IF k <= 1 THEN 0 ELSE Max2(1, PyRound(k * vf[1], vf[2]))

\* n_val for a bucket of size k.
NVal(k, vf) ==
    IF k <= 1 THEN 0
    ELSE Min2(Max2(1, PyRound(k * vf[1], vf[2])), k - 1)

\* bucket[:n_val] and bucket[n_val:]
BucketVal(bucket, n_val) == SubSeq(bucket, 1, n_val)

\* Mutant of BucketTrain: the slice starts one element late (bucket[n_val + 1:]).
BucketTrainOffByOne(bucket, n_val) == SubSeq(bucket, n_val + 2, Len(bucket))

BucketTrain(bucket, n_val) == SubSeq(bucket, n_val + 1, Len(bucket))

\* The loop over the sorted bucket keys; a key with no example is not in by_bucket.
RECURSIVE SplitBuckets(_, _, _, _, _, _)
SplitBuckets(keys, exs, vf, rng, train, val) ==
    IF keys = <<>> THEN [train |-> train, val |-> val]
    ELSE IF ByBucket(exs, Head(keys)) = <<>>
         THEN SplitBuckets(Tail(keys), exs, vf, rng, train, val)
         ELSE LET sh == Shuffle(rng, SortedBucket(exs, Head(keys)))
                  n_val == NVal(Len(sh.list), vf)
              IN  SplitBuckets(Tail(keys), exs, vf, sh.state,
                               train \o BucketTrain(sh.list, n_val),
                               val \o BucketVal(sh.list, n_val))

ValidFraction(vf) == 0 < vf[1] /\ vf[1] < vf[2]

StratifiedSplit(exs, vf, sd) ==
    IF ~ValidFraction(vf)
    THEN [error |-> "ValueError", train |-> <<>>, val |-> <<>>]
    ELSE LET r == SplitBuckets(BucketKeysSorted, exs, vf, RngSeed(sd), <<>>, <<>>)
         IN  [error |-> "none",
              train |-> SortByUserId(r.train),
              val |-> SortByUserId(r.val)]

-----------------------------------------------------------------------------
(* Bounded inputs *)

\* Every list of n examples with user ids 1..n in ascending order.
ExampleLists(n, dsids) ==
    { [i \in 1..n |-> UserExample(i, a[i][1], a[i][2], a[i][3])] :
        a \in [1..n -> dsids \X Langs \X Labels] }

Reorderings(s) ==
    { [i \in 1..Len(s) |-> s[p[i]]] :
        p \in { q \in [1..Len(s) -> 1..Len(s)] :
                  \A i, j \in 1..Len(s) : i # j => q[i] # q[j] } }

-----------------------------------------------------------------------------
(* constants.py *)

FOLD_A_TRAIN == <<30, 32>>
FOLD_A_TEST == <<31, 33>>
FOLD_B_TRAIN == <<31, 33>>
FOLD_B_TEST == <<30, 32>>

PairFold(name, train_ids, test_ids) ==
    [name |-> name, train_dataset_ids |-> train_ids, test_dataset_ids |-> test_ids]

\* Mutant of PAIR_FOLDS: fold_b is tested on a dataset it trains on.
PairFoldsLeaky ==
    << PairFold("fold_a", FOLD_A_TRAIN, FOLD_A_TEST),
       PairFold("fold_b", FOLD_B_TRAIN, <<30, 31>>) >>

PAIR_FOLDS ==
    << PairFold("fold_a", FOLD_A_TRAIN, FOLD_A_TEST),
       PairFold("fold_b", FOLD_B_TRAIN, FOLD_B_TEST) >>

DEFAULT_DATASET_IDS == <<30, 31, 32, 33>>

-----------------------------------------------------------------------------
(* data.py: filtering and the JSONL rows *)

\* Mutant of FilterExamplesByDataset: the dataset ids are not looked at.
FilterKeepsAll(exs, allowed) == exs

\* filter_examples_by_dataset
FilterExamplesByDataset(exs, allowed) ==
    SelectSeq(exs, LAMBDA ex : ex.dataset_id \in Range(allowed))

\* UserExample.to_metadata
ToMetadata(ex) ==
    [user_id |-> ex.user_id, dataset_id |-> ex.dataset_id,
     lang |-> ex.lang, label |-> ex.label]

\* UserExample.to_sft_record: system prompt, the user's prompt, the label.
\* The user prompt starts with the line "User ID: <id>".
ToSftRecord(ex) ==
    [messages |-> << [role |-> "system", content |-> "SYSTEM_PROMPT"],
                     [role |-> "user", content |-> <<"User ID", ex.user_id>>],
                     [role |-> "assistant", content |-> ex.label] >>]

\* UserExample.to_eval_record().to_dict()
ToEvalRecord(ex) ==
    [user_id |-> ex.user_id, dataset_id |-> ex.dataset_id,
     lang |-> ex.lang, label |-> ex.label,
     messages |-> << [role |-> "system", content |-> "SYSTEM_PROMPT"],
                     [role |-> "user", content |-> <<"User ID", ex.user_id>>] >>]

\* write_sft_examples, write_metadata, write_eval_examples: the rows written.
SftRows(exs) == [i \in 1..Len(exs) |-> ToSftRecord(exs[i])]
MetadataRows(exs) == [i \in 1..Len(exs) |-> ToMetadata(exs[i])]
EvalRows(exs) == [i \in 1..Len(exs) |-> ToEvalRecord(exs[i])]

\* write_jsonl: the file at path is replaced by the rows.
WriteFile(files, path, rows) ==
    [p \in (DOMAIN files) \cup {path} |-> IF p = path THEN rows ELSE files[p]]

CountLabel(exs, label) ==
    Len(SelectSeq(exs, LAMBDA ex : ex.label = label))

-----------------------------------------------------------------------------
(* cli.py: _split_write and prepare_data *)

\* The files _split_write writes under split_dir; has_test is FALSE when
\* test_examples is None.
SplitFiles(files, split_dir, train, val, test, has_test) ==
    LET f1 == WriteFile(files, <<split_dir, "train.jsonl">>, SftRows(train))
        f2 == WriteFile(f1, <<split_dir, "train.meta.jsonl">>, MetadataRows(train))
        f3 == WriteFile(f2, <<split_dir, "val.jsonl">>, SftRows(val))
        f4 == WriteFile(f3, <<split_dir, "val.meta.jsonl">>, MetadataRows(val))
    IN  IF ~has_test THEN f4
        ELSE WriteFile(
               WriteFile(f4, <<split_dir, "test.eval.jsonl">>, EvalRows(test)),
               <<split_dir, "test.meta.jsonl">>, MetadataRows(test))

\* The dict _split_write returns, with the keys prepare_data adds for a fold
\* (a key the dict does not have is -1 or the empty tuple here).
SplitWritten(name, train, val, test, has_test, fold) ==
    [name |-> name,
     train_count |-> Len(train),
     val_count |-> Len(val),
     train_val_overlap |-> OverlapSize(train, val),
     test_count |-> IF ~has_test THEN -1 ELSE Len(test),
     train_test_overlap |-> IF ~has_test THEN -1 ELSE OverlapSize(train, test),
     val_test_overlap |-> IF ~has_test THEN -1 ELSE OverlapSize(val, test),
     train_dataset_ids |-> fold.train_dataset_ids,
     test_dataset_ids |-> fold.test_dataset_ids]

\* The challenge sanity check for the default 4 datasets.
SanityCheckFails(dsids, exs) ==
    /\ Range(dsids) = Range(DEFAULT_DATASET_IDS)
    /\ \/ Len(exs) # 889
       \/ CountLabel(exs, "BOT") # 184
       \/ CountLabel(exs, "HUMAN") # 705

\* The dataset-id arguments tried: the default corpus and two parts of it.
DatasetArgs == { DEFAULT_DATASET_IDS, <<30, 31, 32>>, <<30, 31>> }

\* The lang of each dataset file (its top-level "lang"): two corpora tried.
DatasetLangs ==
    { [d \in Range(DEFAULT_DATASET_IDS) |-> "en"],
      [d \in Range(DEFAULT_DATASET_IDS) |-> IF d \in {30, 31} THEN "en" ELSE "fr"] }

\* The state after load_examples(datasets): one example per user, sorted by
\* user_id, every example of a dataset carrying that dataset's lang.
LoadedExamples(dsids) ==
    UNION { { [i \in 1..n |-> UserExample(i, a[i][1], lang[a[i][1]], a[i][2])] :
                a \in [1..n -> Range(dsids) \X Labels] } :
            n \in 0..MaxLoaded, lang \in DatasetLangs }

\* The seeds tried by prepare_data.
PrepSeeds == {0, 1}

PrepInit ==
    /\ datasets \in DatasetArgs
    /\ examples \in LoadedExamples(datasets)
    /\ val_fraction \in { <<0, 1>>, <<1, 10>>, <<1, 2>> }
    /\ seed \in PrepSeeds
    /\ prep_pc = "start"
    /\ index = 0
    /\ folds_out = <<>>
    /\ prepared = NoFiles
    /\ split_pc = "idle"
    /\ examples2 = <<>>
    /\ split_out = <<>>
    /\ MetIdle
    /\ ChkIdle
    /\ ApiIdle

\* prepare_data up to the loop: the sanity check, then the files under all/.
PrepareStart ==
    /\ prep_pc = "start"
    /\ IF SanityCheckFails(datasets, examples)
       THEN /\ prep_pc' = "error"
            /\ UNCHANGED prepared
       ELSE /\ prep_pc' = "folds"
            /\ prepared' =
                 WriteFile(
                   WriteFile(
                     WriteFile(prepared, <<"all", "all.jsonl">>,
                               SftRows(examples)),
                     <<"all", "all.meta.jsonl">>, MetadataRows(examples)),
                   <<"all", "all.eval.jsonl">>, EvalRows(examples))
    /\ UNCHANGED <<datasets, index, folds_out>>
    /\ UNCHANGED <<splitVars, metVars, chkVars, apiVars>>

\* One turn of the loop over PAIR_FOLDS.
PrepareFold ==
    /\ prep_pc = "folds"
    /\ index < Len(PAIR_FOLDS)
    /\ LET fold == PAIR_FOLDS[index + 1]
           fold_train_pool == FilterExamplesByDataset(examples, fold.train_dataset_ids)
           fold_test == FilterExamplesByDataset(examples, fold.test_dataset_ids)
           split == StratifiedSplit(fold_train_pool, val_fraction, seed + index)
       IN  IF split.error # "none"
           THEN /\ prep_pc' = "error"
                /\ UNCHANGED <<index, folds_out, prepared>>
           ELSE /\ prepared' = SplitFiles(prepared, fold.name,
                                          split.train, split.val, fold_test, TRUE)
                /\ folds_out' = Append(folds_out,
                                       SplitWritten(fold.name, split.train,
                                                    split.val, fold_test, TRUE, fold))
                /\ index' = index + 1
                /\ UNCHANGED prep_pc
    /\ UNCHANGED datasets
    /\ UNCHANGED <<splitVars, metVars, chkVars, apiVars>>

\* After the loop: the final split over every example, and summary.json.
PrepareFinal ==
    /\ prep_pc = "folds"
    /\ index = Len(PAIR_FOLDS)
    /\ LET split == StratifiedSplit(examples, val_fraction, seed + 999)
           final_written == SplitWritten("final", split.train, split.val, <<>>, FALSE,
                                         PairFold("final", <<>>, <<>>))
       IN  IF split.error # "none"
           THEN /\ prep_pc' = "error"
                /\ UNCHANGED prepared
           ELSE /\ prep_pc' = "done"
                /\ prepared' =
                     WriteFile(
                       SplitFiles(prepared, "final", split.train, split.val, <<>>, FALSE),
                       <<"summary.json">>,
                       [datasets |-> datasets, seed |-> seed,
                        val_fraction |-> val_fraction,
                        pair_folds |-> folds_out, final_split |-> final_written])
    /\ UNCHANGED <<datasets, index, folds_out>>
    /\ UNCHANGED <<splitVars, metVars, chkVars, apiVars>>

NextPrepare == PrepareStart \/ PrepareFold \/ PrepareFinal

SpecPrepare == PrepInit /\ [][NextPrepare]_vars

-----------------------------------------------------------------------------
(* metrics.py: ClassificationPoint, Metrics, compute_metrics *)

ClassificationPoint(uid, ds, truth_label, predicted_label) ==
    [user_id |-> uid, dataset_id |-> ds,
     truth_label |-> truth_label, predicted_label |-> predicted_label]

\* a / b on floats: the quotient kept as the pair it is computed from; a
\* division by zero raises.
TrueDiv(a, b) ==
    [num |-> a, den |-> b, error |-> IF b = 0 THEN "ZeroDivisionError" ELSE "none"]

\* The float 0.0.
ZeroFloat == [num |-> 0, den |-> 1, error |-> "none"]

\* tp = tn = fp = fn = bots = humans = total = 0
MetricsZero == [total |-> 0, bots |-> 0, humans |-> 0,
                tp |-> 0, tn |-> 0, fp |-> 0, fn |-> 0]

\* Mutant of CountPoint: a missed bot is counted as a true negative.
CountPointMissedAsTn(acc, point) ==
    LET is_bot == point.truth_label = "BOT"
        predicted_bot == point.predicted_label = "BOT"
    IN  IF is_bot
        THEN IF predicted_bot
             THEN [acc EXCEPT !.total = @ + 1, !.bots = @ + 1, !.tp = @ + 1]
             ELSE [acc EXCEPT !.total = @ + 1, !.bots = @ + 1, !.tn = @ + 1]
        ELSE IF predicted_bot
             THEN [acc EXCEPT !.total = @ + 1, !.humans = @ + 1, !.fp = @ + 1]
             ELSE [acc EXCEPT !.total = @ + 1, !.humans = @ + 1, !.tn = @ + 1]

\* The body of the loop over the points.
CountPoint(acc, point) ==
    LET is_bot == point.truth_label = "BOT"
        predicted_bot == point.predicted_label = "BOT"
    IN  IF is_bot
        THEN IF predicted_bot
             THEN [acc EXCEPT !.total = @ + 1, !.bots = @ + 1, !.tp = @ + 1]
             ELSE [acc EXCEPT !.total = @ + 1, !.bots = @ + 1, !.fn = @ + 1]
        ELSE IF predicted_bot
             THEN [acc EXCEPT !.total = @ + 1, !.humans = @ + 1, !.fp = @ + 1]
             ELSE [acc EXCEPT !.total = @ + 1, !.humans = @ + 1, !.tn = @ + 1]

\* for point in points: ...
RECURSIVE CountPoints(_, _)
CountPoints(acc, pts) ==
    IF pts = <<>> THEN acc ELSE CountPoints(CountPoint(acc, Head(pts)), Tail(pts))

\* Mutant of Accuracy: the division is not guarded by "if total".
AccuracyUnguarded(tp, tn, total) == TrueDiv(100 * (tp + tn), total)

\* accuracy = (100.0 * (tp + tn) / total) if total else 0.0
Accuracy(tp, tn, total) ==
    IF total # 0 THEN TrueDiv(100 * (tp + tn), total) ELSE ZeroFloat

\* Mutant of Score: the weights of a false positive and a missed bot swapped.
ScoreWeightsSwapped(tp, fp, fn) == tp * 4 - fp - fn * 2

\* score = tp * 4 - fp * 2 - fn
Score(tp, fp, fn) == tp * 4 - fp * 2 - fn

\* max_score = bots * 4
MaxScore(bots) == bots * 4

\* pct_max = (100.0 * score / max_score) if max_score else 0.0
PctMax(score, max_score) ==
    IF max_score # 0 THEN TrueDiv(100 * score, max_score) ELSE ZeroFloat

\* The Metrics built from the counts; error is the exception raised, if any.
MetricsOf(acc) ==
    LET accuracy == Accuracy(acc.tp, acc.tn, acc.total)
        score == Score(acc.tp, acc.fp, acc.fn)
        max_score == MaxScore(acc.bots)
        pct_max == PctMax(score, max_score)
    IN  [total |-> acc.total, bots |-> acc.bots, humans |-> acc.humans,
         tp |-> acc.tp, tn |-> acc.tn, fp |-> acc.fp, fn |-> acc.fn,
         accuracy |-> accuracy, score |-> score, max_score |-> max_score,
         pct_max |-> pct_max,
         error |-> IF accuracy.error # "none" THEN accuracy.error ELSE pct_max.error]

\* Mutant of ComputeMetrics: the loop stops one point early.
ComputeMetricsSkipsLast(pts) ==
    MetricsOf(CountPoints(MetricsZero, SubSeq(pts, 1, Len(pts) - 1)))

ComputeMetrics(pts) == MetricsOf(CountPoints(MetricsZero, pts))

-----------------------------------------------------------------------------
(* SpecMetrics: compute_metrics applied to bounded inputs *)

\* Every list of n points; point i is about user i of dataset 30.
PointLists(n) ==
    { [i \in 1..n |-> ClassificationPoint(i, 30, a[i][1], a[i][2])] :
        a \in [1..n -> Labels \X Labels] }

MetInit ==
    /\ \E n \in 0..MaxPoints : points \in PointLists(n)
    /\ met_pc = "ready"
    /\ points2 = <<>>
    /\ met_out = <<>>
    /\ SplitIdle
    /\ PrepIdle
    /\ ChkIdle
    /\ ApiIdle

\* The first call.
MetricsCall ==
    /\ met_pc = "ready"
    /\ met_out' = <<ComputeMetrics(points)>>
    /\ met_pc' = "called"
    /\ UNCHANGED <<points, points2>>
    /\ UNCHANGED <<splitVars, prepVars, chkVars, apiVars>>

\* The second call: the same points in any order.
MetricsRecall ==
    /\ met_pc = "called"
    /\ Len(points) <= MaxPermLen
    /\ \E p \in Reorderings(points) :
         /\ points2' = p
         /\ met_out' = Append(met_out, ComputeMetrics(p))
    /\ met_pc' = "recalled"
    /\ UNCHANGED points
    /\ UNCHANGED <<splitVars, prepVars, chkVars, apiVars>>

NextMetrics == MetricsCall \/ MetricsRecall

SpecMetrics == MetInit /\ [][NextMetrics]_vars

-----------------------------------------------------------------------------
(* SpecSplit: stratified_split applied to bounded inputs *)

SplitInit ==
    /\ \E n \in 0..MaxUsers : examples \in ExampleLists(n, {30})
    /\ val_fraction \in ValFractions
    /\ seed \in 0..(NumSeeds - 1)
    /\ split_pc = "ready"
    /\ examples2 = <<>>
    /\ split_out = <<>>
    /\ PrepIdle
    /\ MetIdle
    /\ ChkIdle
    /\ ApiIdle

\* The first call.
SplitCall ==
    /\ split_pc = "ready"
    /\ split_out' = <<StratifiedSplit(examples, val_fraction, seed)>>
    /\ split_pc' = "called"
    /\ UNCHANGED <<examples, val_fraction, seed, examples2>>
    /\ UNCHANGED <<prepVars, metVars, chkVars, apiVars>>

\* The second call: the same examples in any order, the same fraction and seed.
SplitRecall ==
    /\ split_pc = "called"
    /\ Len(examples) <= MaxPermLen
    /\ \E p \in Reorderings(examples) :
         /\ examples2' = p
         /\ split_out' = Append(split_out, StratifiedSplit(p, val_fraction, seed))
    /\ split_pc' = "recalled"
    /\ UNCHANGED <<examples, val_fraction, seed>>
    /\ UNCHANGED <<prepVars, metVars, chkVars, apiVars>>

NextSplit == SplitCall \/ SplitRecall

SpecSplit == SplitInit /\ [][NextSplit]_vars

-----------------------------------------------------------------------------
(* main.py: the run-checker *)

\* parse_datasets_line on the first lines tried: what the regular expression
\* Datasets:\s*([\d\s,]+) (case-insensitive) and the split on "," give.
ParseDatasetsLine(line) ==
    CASE line = "Datasets: 30, 31" -> <<30, 31>>
      [] line = "Datasets: 31, 30" -> <<31, 30>>
      [] line = "datasets: 30" -> <<30>>
      [] line = "Datasets: 31" -> <<31>>
      [] line = "Datasets: 30 31" -> <<>>
      [] OTHER -> <<>>

\* truth[uid] = False and users[uid] = u for the users of one dataset.
AddUsers(d, uids, value) ==
    [u \in (DOMAIN d) \cup uids |-> IF u \in uids THEN value ELSE d[u]]

\* truth[uid] = True for the lines of a bot file that are keys of truth.
MarkBots(t, bot_lines) ==
    [u \in DOMAIN t |-> IF u \in bot_lines /\ u # "" THEN TRUE ELSE t[u]]

\* Mutant of LoadUsersAndBots: a missing dataset JSON ends the loop instead of
\* moving on to the next dataset id.
RECURSIVE LoadUsersAndBotsStopsAtMissing(_, _, _)
LoadUsersAndBotsStopsAtMissing(ids, files, acc) ==
    IF ids = <<>> THEN acc
    ELSE LET n == Head(ids)
             f == files[n]
         IN  IF ~f.json_exists
             THEN [acc EXCEPT !.printed =
                        Append(@, [msg |-> "Warning: dataset not found", n |-> n])]
             ELSE LET t1 == AddUsers(acc.truth, f.users, FALSE)
                      u1 == AddUsers(acc.users, f.users, [dataset |-> n])
                  IN  IF ~f.bots_exists
                      THEN LoadUsersAndBotsStopsAtMissing(Tail(ids), files,
                             [truth |-> t1, users |-> u1,
                              printed |-> Append(acc.printed,
                                  [msg |-> "Warning: bot labels not found", n |-> n])])
                      ELSE LoadUsersAndBotsStopsAtMissing(Tail(ids), files,
                             [truth |-> MarkBots(t1, f.bots), users |-> u1,
                              printed |-> acc.printed])

\* load_users_and_bots: the loop over dataset_ids, files being the datasets
\* directory; acc holds truth, users and the warnings printed.
RECURSIVE LoadUsersAndBots(_, _, _)
LoadUsersAndBots(ids, files, acc) ==
    IF ids = <<>> THEN acc
    ELSE LET n == Head(ids)
             f == files[n]
         IN  IF ~f.json_exists
             THEN LoadUsersAndBots(Tail(ids), files,
                    [acc EXCEPT !.printed =
                        Append(@, [msg |-> "Warning: dataset not found", n |-> n])])
             ELSE LET t1 == AddUsers(acc.truth, f.users, FALSE)
                      u1 == AddUsers(acc.users, f.users, [dataset |-> n])
                  IN  IF ~f.bots_exists
                      THEN LoadUsersAndBots(Tail(ids), files,
                             [truth |-> t1, users |-> u1,
                              printed |-> Append(acc.printed,
                                  [msg |-> "Warning: bot labels not found", n |-> n])])
                      ELSE LoadUsersAndBots(Tail(ids), files,
                             [truth |-> MarkBots(t1, f.bots), users |-> u1,
                              printed |-> acc.printed])

\* The non-empty lines after the first: predicted_bots as first built.
PredictedLines(ls) == { ls[i] : i \in 2..Len(ls) } \ {""}

\* Mutant of KnownPredicted: the unknown ids are reported but not removed.
KnownPredictedKeepsAll(predicted, keys) == predicted

\* predicted_bots &= set(truth.keys())
KnownPredicted(predicted, keys) == predicted \cap keys

\* Mutant of ScoreRun: the penalties of a false positive and of a missed bot
\* are swapped in the score.
ScoreRunPenaltiesSwapped(t, predicted) ==
    LET actual_bots == { u \in DOMAIN t : t[u] }
        actual_humans == (DOMAIN t) \ actual_bots
        total == Cardinality(DOMAIN t)
        tp == Cardinality(predicted \cap actual_bots)
        fp == Cardinality(predicted \cap actual_humans)
        fn == Cardinality(actual_bots \ predicted)
        tn == Cardinality(actual_humans \ predicted)
    IN  [tp |-> tp, fp |-> fp, fn |-> fn, tn |-> tn, total |-> total,
         actual_bots |-> Cardinality(actual_bots),
         actual_humans |-> Cardinality(actual_humans),
         score |-> tp * 4 + fn * (-2) + fp * (-1),
         pct_correct |-> IF total # 0 THEN TrueDiv(100 * (tp + tn), total) ELSE ZeroFloat,
         pct_fp |-> IF total # 0 THEN TrueDiv(100 * fp, total) ELSE ZeroFloat,
         pct_fn |-> IF total # 0 THEN TrueDiv(100 * fn, total) ELSE ZeroFloat]

\* The sets and counts of the report.
ScoreRun(t, predicted) ==
    LET actual_bots == { u \in DOMAIN t : t[u] }
        actual_humans == (DOMAIN t) \ actual_bots
        total == Cardinality(DOMAIN t)
        tp == Cardinality(predicted \cap actual_bots)
        fp == Cardinality(predicted \cap actual_humans)
        fn == Cardinality(actual_bots \ predicted)
        tn == Cardinality(actual_humans \ predicted)
    IN  [tp |-> tp, fp |-> fp, fn |-> fn, tn |-> tn, total |-> total,
         actual_bots |-> Cardinality(actual_bots),
         actual_humans |-> Cardinality(actual_humans),
         score |-> tp * 4 + fn * (-1) + fp * (-2),
         pct_correct |-> IF total # 0 THEN TrueDiv(100 * (tp + tn), total) ELSE ZeroFloat,
         pct_fp |-> IF total # 0 THEN TrueDiv(100 * fp, total) ELSE ZeroFloat,
         pct_fn |-> IF total # 0 THEN TrueDiv(100 * fn, total) ELSE ZeroFloat]

\* The report: its counts and the ids listed as false positives and negatives.
Report(c, t, predicted) ==
    [counts |-> c,
     fp_ids |-> { u \in DOMAIN t : ~t[u] /\ u \in predicted },
     fn_ids |-> { u \in DOMAIN t : t[u] /\ u \notin predicted }]

-----------------------------------------------------------------------------
(* SpecChecker: main() of main.py on bounded run files and datasets *)

\* The first lines of the run files tried.
FirstLines ==
    { "Datasets: 30, 31", "Datasets: 31, 30", "datasets: 30", "Datasets: 31",
      "Datasets: 30 31", "a" }

\* The later lines tried: a blank line, user ids, a metadata line.
RestLines == { "", "a", "b", "c", "Model: m" }

SeqsUpTo(S, n) == UNION { [1..k -> S] : k \in 0..n }

RunFileLines ==
    {<<>>} \cup { <<first>> \o rest :
                    first \in FirstLines, rest \in SeqsUpTo(RestLines, MaxRunLines) }

\* The dataset ids that may have files, the users each JSON may list and the
\* ids each bot file may list ("c" is in no dataset).
DiskDatasetIds == {30, 31}
UserPool(n) == IF n = 30 THEN {"a", "b"} ELSE {"b"}
BotPool == {"a", "b"}

MissingDataset ==
    [json_exists |-> FALSE, users |-> {}, bots_exists |-> FALSE, bots |-> {}]

DatasetFileStates(n) ==
    {MissingDataset}
    \cup { [json_exists |-> TRUE, users |-> U, bots_exists |-> FALSE, bots |-> {}] :
             U \in SUBSET UserPool(n) }
    \cup { [json_exists |-> TRUE, users |-> U, bots_exists |-> TRUE, bots |-> B] :
             U \in SUBSET UserPool(n), B \in SUBSET BotPool }

\* The datasets directory when the run file declares the ids in declared.
DatasetDirs(declared) ==
    { [n \in DiskDatasetIds |-> IF n = 30 THEN x ELSE y] :
        x \in (IF 30 \in declared THEN DatasetFileStates(30) ELSE {MissingDataset}),
        y \in (IF 31 \in declared THEN DatasetFileStates(31) ELSE {MissingDataset}) }

\* The inputs of a run.  What a run never reads is left out: no run file
\* without an argument, no lines without a run file, no files for a dataset
\* that the first line does not declare.
ChkInit ==
    /\ argv \in { <<>>, <<"runs/r.txt">> }
    /\ run_exists \in (IF argv = <<>> THEN {FALSE} ELSE BOOLEAN)
    /\ lines \in (IF run_exists THEN RunFileLines ELSE {<<>>})
    /\ dataset_files \in
         DatasetDirs(IF lines = <<>> THEN {} ELSE Range(ParseDatasetsLine(lines[1])))
    /\ chk_pc = "open"
    /\ ChkBlank
    /\ SplitIdle
    /\ PrepIdle
    /\ MetIdle
    /\ ApiIdle

\* main() up to the datasets declaration: the argument, the run file and its
\* first line are checked in this order, each failure ending in sys.exit(1).
ChkOpen ==
    /\ chk_pc = "open"
    /\ IF Len(argv) < 1
       THEN /\ printed' = Append(printed, [msg |-> "Usage"])
            /\ chk_pc' = "exit1"
            /\ UNCHANGED dataset_ids
       ELSE IF ~run_exists
       THEN /\ printed' = Append(printed, [msg |-> "Error: run file not found"])
            /\ chk_pc' = "exit1"
            /\ UNCHANGED dataset_ids
       ELSE IF lines = <<>>
       THEN /\ printed' = Append(printed, [msg |-> "Error: run file is empty"])
            /\ chk_pc' = "exit1"
            /\ UNCHANGED dataset_ids
       ELSE /\ dataset_ids' = ParseDatasetsLine(lines[1])
            /\ IF dataset_ids' = <<>>
               THEN /\ printed' = Append(printed,
                                     [msg |-> "Error: could not parse datasets"])
                    /\ chk_pc' = "exit1"
               ELSE /\ chk_pc' = "truth"
                    /\ UNCHANGED printed
    /\ UNCHANGED <<chkInputs, truth, users, predicted_bots, unknown, counts, results>>
    /\ UNCHANGED <<splitVars, prepVars, metVars, apiVars>>

\* Mutant of ChkTruth: the run goes on when no user was loaded.
ChkTruthNoExit ==
    /\ chk_pc = "truth"
    /\ LET loaded == LoadUsersAndBots(dataset_ids, dataset_files,
                        [truth |-> NoFiles, users |-> NoFiles, printed |-> printed])
       IN  /\ truth' = loaded.truth
           /\ users' = loaded.users
           /\ printed' = loaded.printed
           /\ chk_pc' = "predicted"
    /\ UNCHANGED <<chkInputs, dataset_ids, predicted_bots, unknown, counts, results>>
    /\ UNCHANGED <<splitVars, prepVars, metVars, apiVars>>

\* truth, users = load_users_and_bots(dataset_ids)
ChkTruth ==
    /\ chk_pc = "truth"
    /\ LET loaded == LoadUsersAndBots(dataset_ids, dataset_files,
                        [truth |-> NoFiles, users |-> NoFiles, printed |-> printed])
       IN  /\ truth' = loaded.truth
           /\ users' = loaded.users
           /\ IF DOMAIN loaded.truth = {}
              THEN /\ printed' = Append(loaded.printed, [msg |-> "Error: no users loaded"])
                   /\ chk_pc' = "exit1"
              ELSE /\ printed' = loaded.printed
                   /\ chk_pc' = "predicted"
    /\ UNCHANGED <<chkInputs, dataset_ids, predicted_bots, unknown, counts, results>>
    /\ UNCHANGED <<splitVars, prepVars, metVars, apiVars>>

\* The predicted bot ids; the ids in no dataset are reported and removed.
ChkPredicted ==
    /\ chk_pc = "predicted"
    /\ unknown' = PredictedLines(lines) \ DOMAIN truth
    /\ IF unknown' # {}
       THEN /\ printed' = Append(printed,
                            [msg |-> "Warning: predicted user ID(s) not in datasets",
                             n |-> Cardinality(unknown')])
            /\ predicted_bots' = KnownPredicted(PredictedLines(lines), DOMAIN truth)
       ELSE /\ UNCHANGED printed
            /\ predicted_bots' = PredictedLines(lines)
    /\ chk_pc' = "score"
    /\ UNCHANGED <<chkInputs, dataset_ids, truth, users, counts, results>>
    /\ UNCHANGED <<splitVars, prepVars, metVars, apiVars>>

\* The confusion sets, their sizes, the percentages and the score; the report
\* is printed and written to results/<run name>.results.txt.
ChkReport ==
    /\ chk_pc = "score"
    /\ counts' = ScoreRun(truth, predicted_bots)
    /\ LET report == Report(counts', truth, predicted_bots)
       IN  /\ printed' = Append(printed, [msg |-> "report", report |-> report])
           /\ results' = AddUsers(results, {"r.results.txt"}, report)
    /\ chk_pc' = "done"
    /\ UNCHANGED <<chkInputs, dataset_ids, truth, users, predicted_bots, unknown>>
    /\ UNCHANGED <<splitVars, prepVars, metVars, apiVars>>

NextChecker == ChkOpen \/ ChkTruth \/ ChkPredicted \/ ChkReport

SpecChecker == ChkInit /\ [][NextChecker]_vars

-----------------------------------------------------------------------------
(* openai_api.py: normalize_label.  A text is a sequence of characters. *)

LowerLetters ==
    << "a", "b", "c", "d", "e", "f", "g", "h", "i", "j", "k", "l", "m",
       "n", "o", "p", "q", "r", "s", "t", "u", "v", "w", "x", "y", "z" >>

UpperLetters ==
    << "A", "B", "C", "D", "E", "F", "G", "H", "I", "J", "K", "L", "M",
       "N", "O", "P", "Q", "R", "S", "T", "U", "V", "W", "X", "Y", "Z" >>

\* str.upper() on the characters used: a lower-case letter becomes its
\* capital, every other character stays.
ToUpper ==
    [c \in Range(LowerLetters) |->
        UpperLetters[CHOOSE k \in DOMAIN LowerLetters : LowerLetters[k] = c]]

Upper(text) ==
    [i \in DOMAIN text |->
        IF text[i] \in DOMAIN ToUpper THEN ToUpper[text[i]] ELSE text[i]]

\* str.strip(): the text without its leading and trailing whitespace.
Strip(text) ==
    LET kept == { i \in DOMAIN text : text[i] \notin {" ", "\n", "\t"} }
    IN  IF kept = {} THEN <<>>
        ELSE SubSeq(text,
                    CHOOSE i \in kept : \A j \in kept : i <= j,
                    CHOOSE i \in kept : \A j \in kept : j <= i)

\* text.startswith(prefix)
StartsWith(text, prefix) ==
    Len(text) >= Len(prefix) /\ SubSeq(text, 1, Len(prefix)) = prefix

\* sub in text
Contains(text, sub) ==
    \E i \in 1..(Len(text) - Len(sub) + 1) : SubSeq(text, i, i + Len(sub) - 1) = sub

BotWord == <<"B", "O", "T">>
HumanWord == <<"H", "U", "M", "A", "N">>

\* Mutant of NormalizeLabel: the two startswith tests are missing.
NormalizeLabelNoPrefix(raw) ==
    LET text == Upper(Strip(raw))
        has_bot == Contains(text, BotWord)
        has_human == Contains(text, HumanWord)
    IN  IF text = <<>> THEN "None"
        ELSE IF has_bot /\ ~has_human THEN "BOT"
        ELSE IF has_human /\ ~has_bot THEN "HUMAN"
        ELSE "None"

\* normalize_label; "None" is None.
NormalizeLabel(raw) ==
    LET text == Upper(Strip(raw))
        has_bot == Contains(text, BotWord)
        has_human == Contains(text, HumanWord)
    IN  IF text = <<>> THEN "None"
        ELSE IF StartsWith(text, BotWord) THEN "BOT"
        ELSE IF StartsWith(text, HumanWord) THEN "HUMAN"
        ELSE IF has_bot /\ ~has_human THEN "BOT"
        ELSE IF has_human /\ ~has_bot THEN "HUMAN"
        ELSE "None"

\* The pieces the raw texts tried are made of.
TextPieces ==
    { <<" ">>, <<"b", "o", "t">>, <<"B", "O", "T">>, <<"H", "U", "M", "A", "N">>,
      <<"h", "u", "m", "a", "n">>, <<"h", "u", "m">>, <<"x">>, <<"B", "o">>,
      <<"t">> }

RECURSIVE Concat(_)
Concat(pieces) ==
    IF pieces = <<>> THEN <<>> ELSE Head(pieces) \o Concat(Tail(pieces))

\* Every text made of at most MaxPieces pieces.
RawTexts == { Concat(ps) : ps \in SeqsUpTo(TextPieces, MaxPieces) }

NormInit ==
    /\ raw_text \in RawTexts
    /\ norm_pc = "ready"
    /\ norm_out = "None"
    /\ OthersIdle("norm")

NormalizeCall ==
    /\ norm_pc = "ready"
    /\ norm_out' = NormalizeLabel(raw_text)
    /\ norm_pc' = "called"
    /\ UNCHANGED raw_text
    /\ OthersUnchanged("norm")

NextNormalize == NormalizeCall

SpecNormalize == NormInit /\ [][NextNormalize]_vars

-----------------------------------------------------------------------------
(* openai_api.py classify_messages and cli.py evaluate_records *)

\* invalid_examples takes an entry only while len(invalid_examples) < 10.
InvalidExamplesCap == 10

\* response.choices[0].message.content: a text, or None.
TextContent(text) == [none |-> FALSE, text |-> text]
NoneContent == [none |-> TRUE, text |-> <<>>]

\* Mutant of ClassifyMessages: an invalid output is not given the label HUMAN.
ClassifyMessagesNoDefault(content) ==
    LET raw == IF content.none \/ content.text = <<>> THEN <<>> ELSE content.text
    IN  [prediction |-> NormalizeLabel(raw), raw_output |-> raw]

\* Mutant of ClassifyMessages: an invalid output is given the label BOT.
ClassifyMessagesInvalidIsBot(content) ==
    LET raw == IF content.none \/ content.text = <<>> THEN <<>> ELSE content.text
        label == NormalizeLabel(raw)
    IN  [prediction |-> IF label = "None" THEN "BOT" ELSE label,
         raw_output |-> raw]

\* classify_messages, from the response on: raw = content or "",
\* normalized = normalize_label(raw) or "HUMAN".
ClassifyMessages(content) ==
    LET raw == IF content.none \/ content.text = <<>> THEN <<>> ELSE content.text
        label == NormalizeLabel(raw)
    IN  [prediction |-> IF label = "None" THEN "HUMAN" ELSE label,
         raw_output |-> raw]

\* Mutant of Truncate: the slice keeps one record more.
TruncateOneMore(recs, n) ==
    IF n > 0 THEN SubSeq(recs, 1, Min2(n + 1, Len(recs))) ELSE recs

\* if max_samples > 0: records = records[:max_samples]
Truncate(recs, n) ==
    IF n > 0 THEN SubSeq(recs, 1, Min2(n, Len(recs))) ELSE recs

\* The eval records tried: n users of datasets 30 and 31, every third a bot.
RecordsOf(n) ==
    [i \in 1..n |->
        ToEvalRecord(UserExample(i, 30 + (i % 2), "en",
                                 IF i % 3 = 0 THEN "BOT" ELSE "HUMAN"))]

\* What the classifier may answer to the call for record i: anything for the
\* first two records, an empty text or BOT for the later ones.
Contents(i) ==
    IF i <= 2
    THEN { TextContent(BotWord), TextContent(<<>>), NoneContent,
           TextContent(<<"h", "u", "m", "a", "n">>),
           TextContent(<<"x", " ", "b", "o", "t", " ", "H", "U", "M", "A", "N">>) }
    ELSE { TextContent(<<>>), TextContent(BotWord) }

EvalInit ==
    /\ records \in { RecordsOf(n) : n \in {0, 2, MaxRecords} }
    /\ max_samples \in {0, 1, 3}
    /\ eval_pc = "ready"
    /\ eval_records = <<>>
    /\ eval_index = 0
    /\ api_log = <<>>
    /\ eval_points = <<>>
    /\ predicted_bot_ids = <<>>
    /\ invalid_output_count = 0
    /\ invalid_examples = <<>>
    /\ eval_out = NoFiles
    /\ OthersIdle("eval")

\* The truncation, before the loop.
EvalStart ==
    /\ eval_pc = "ready"
    /\ eval_records' = Truncate(records, max_samples)
    /\ eval_pc' = "loop"
    /\ UNCHANGED <<records, max_samples, eval_index, api_log, eval_points,
                   predicted_bot_ids, invalid_output_count, invalid_examples,
                   eval_out>>
    /\ OthersUnchanged("eval")

\* for record in records: the request of classify_messages is sent.
EvalCall ==
    /\ eval_pc = "loop"
    /\ eval_index < Len(eval_records)
    /\ api_log' = Append(api_log,
                         [kind |-> "request",
                          messages |-> eval_records[eval_index + 1].messages])
    /\ eval_pc' = "waiting"
    /\ UNCHANGED <<records, max_samples, eval_records, eval_index, eval_points,
                   predicted_bot_ids, invalid_output_count, invalid_examples,
                   eval_out>>
    /\ OthersUnchanged("eval")

\* The response arrives; the rest of the loop body.
EvalResponse ==
    /\ eval_pc = "waiting"
    /\ \E content \in Contents(eval_index + 1) :
         LET record == eval_records[eval_index + 1]
             classified == ClassifyMessages(content)
             invalid == NormalizeLabel(classified.raw_output) = "None"
         IN  /\ api_log' = Append(api_log, [kind |-> "response", content |-> content])
             /\ invalid_output_count' =
                  IF invalid THEN invalid_output_count + 1 ELSE invalid_output_count
             /\ invalid_examples' =
                  IF invalid /\ Len(invalid_examples) < InvalidExamplesCap
                  THEN Append(invalid_examples,
                              [user_id |-> record.user_id,
                               raw_output |-> classified.raw_output])
                  ELSE invalid_examples
             /\ predicted_bot_ids' =
                  IF classified.prediction = "BOT"
                  THEN Append(predicted_bot_ids, record.user_id)
                  ELSE predicted_bot_ids
             /\ eval_points' =
                  Append(eval_points,
                         ClassificationPoint(record.user_id, record.dataset_id,
                                             record.label, classified.prediction))
    /\ eval_index' = eval_index + 1
    /\ eval_pc' = "loop"
    /\ UNCHANGED <<records, max_samples, eval_records, eval_out>>
    /\ OthersUnchanged("eval")

\* The request fails: client.chat.completions.create raises, and so does
\* evaluate_records.
EvalApiError ==
    /\ eval_pc = "waiting"
    /\ api_log' = Append(api_log, [kind |-> "error"])
    /\ eval_pc' = "error"
    /\ UNCHANGED <<records, max_samples, eval_records, eval_index, eval_points,
                   predicted_bot_ids, invalid_output_count, invalid_examples,
                   eval_out>>
    /\ OthersUnchanged("eval")

\* Mutant of PerDatasetPoints: every point is appended to every group.
PerDatasetPointsAll(pts, d) == pts

\* per_dataset_points[record.dataset_id].append(point): the points of group d.
PerDatasetPoints(pts, d) == SelectSeq(pts, LAMBDA pt : pt.dataset_id = d)

\* After the loop: the metrics and the dict returned.
EvalFinish ==
    /\ eval_pc = "loop"
    /\ eval_index = Len(eval_records)
    /\ eval_out' =
         [total_examples |-> Len(eval_records),
          invalid_output_count |-> invalid_output_count,
          invalid_examples |-> invalid_examples,
          metrics |-> ComputeMetrics(eval_points),
          per_dataset_metrics |->
              [d \in { eval_points[i].dataset_id : i \in DOMAIN eval_points } |->
                  ComputeMetrics(PerDatasetPoints(eval_points, d))],
          predicted_bot_ids |-> predicted_bot_ids]
    /\ eval_pc' = "done"
    /\ UNCHANGED <<records, max_samples, eval_records, eval_index, api_log,
                   eval_points, predicted_bot_ids, invalid_output_count,
                   invalid_examples>>
    /\ OthersUnchanged("eval")

NextEvaluate == EvalStart \/ EvalCall \/ EvalResponse \/ EvalApiError \/ EvalFinish

SpecEvaluate == EvalInit /\ [][NextEvaluate]_vars

-----------------------------------------------------------------------------
(* data.py: load_examples *)

\* for user in dataset.get("users", []): the duplicate test, then the example.
RECURSIVE LoadUsers(_, _, _, _)
LoadUsers(acc, n, f, file_users) ==
    IF file_users = <<>> THEN acc
    ELSE LET user_id == Head(file_users)
         IN  IF user_id \in acc.seen_user_ids
             THEN [acc EXCEPT !.error = "ValueError"]
             ELSE LoadUsers(
                    [acc EXCEPT
                       !.seen_user_ids = @ \cup {user_id},
                       !.examples =
                           Append(@, UserExample(user_id, n, f.lang,
                                     IF user_id \in f.bots THEN "BOT" ELSE "HUMAN"))],
                    n, f, Tail(file_users))

\* Mutant of LoadDataset: a dataset with a missing file is skipped.
LoadDatasetSkipsMissing(acc, n, f) ==
    IF ~f.json_exists THEN acc
    ELSE IF ~f.bots_exists THEN acc
    ELSE LoadUsers(acc, n, f, f.users)

\* One turn of the loop over dataset_ids.
LoadDataset(acc, n, f) ==
    IF ~f.json_exists THEN [acc EXCEPT !.error = "FileNotFoundError"]
    ELSE IF ~f.bots_exists THEN [acc EXCEPT !.error = "FileNotFoundError"]
    ELSE LoadUsers(acc, n, f, f.users)

\* for dataset_id in dataset_ids: an exception ends the loop.
RECURSIVE LoadDatasets(_, _, _)
LoadDatasets(ids, files, acc) ==
    IF ids = <<>> \/ acc.error # "none" THEN acc
    ELSE LoadDatasets(Tail(ids), files, LoadDataset(acc, Head(ids), files[Head(ids)]))

\* load_examples: the list sorted by user_id, or the error raised and no list.
LoadExamples(ids, files) ==
    LET acc == LoadDatasets(ids, files,
                   [error |-> "none", examples |-> <<>>, seen_user_ids |-> {}])
    IN  IF acc.error # "none"
        THEN [error |-> acc.error, examples |-> <<>>]
        ELSE [error |-> "none", examples |-> SortByUserId(acc.examples)]

\* The dataset-id arguments tried, one of them naming a dataset twice.
LoadArgs == { <<>>, <<30>>, <<31>>, <<30, 31>>, <<31, 30>>, <<30, 30>> }

\* The files a dataset may have: none, the JSON alone, or both; the JSON
\* lists up to MaxFileUsers of the users 1..3 in any order, repeats included.
LoadFileStates(n) ==
    LET lang == IF n = 30 THEN "en" ELSE "fr"
    IN  { [json_exists |-> FALSE, lang |-> lang, users |-> <<>>,
           bots_exists |-> FALSE, bots |-> {}] }
        \cup { [json_exists |-> TRUE, lang |-> lang, users |-> us,
                bots_exists |-> FALSE, bots |-> {}] :
                 us \in SeqsUpTo(1..3, MaxFileUsers) }
        \cup { [json_exists |-> TRUE, lang |-> lang, users |-> us,
                bots_exists |-> TRUE, bots |-> bs] :
                 us \in SeqsUpTo(1..3, MaxFileUsers), bs \in SUBSET {1, 2} }

\* What a call never reads is left out: no files for a dataset not asked for.
LoadInit ==
    /\ load_ids \in LoadArgs
    /\ disk \in
         { [n \in DiskDatasetIds |-> IF n = 30 THEN x ELSE y] :
             x \in (IF 30 \in Range(load_ids) THEN LoadFileStates(30)
                    ELSE {CHOOSE f \in LoadFileStates(30) : ~f.json_exists}),
             y \in (IF 31 \in Range(load_ids) THEN LoadFileStates(31)
                    ELSE {CHOOSE f \in LoadFileStates(31) : ~f.json_exists}) }
    /\ load_pc = "ready"
    /\ load_out = NoFiles
    /\ OthersIdle("load")

LoadCall ==
    /\ load_pc = "ready"
    /\ load_out' = LoadExamples(load_ids, disk)
    /\ load_pc' = "done"
    /\ UNCHANGED <<load_ids, disk>>
    /\ OthersUnchanged("load")

NextLoad == LoadCall

SpecLoad == LoadInit /\ [][NextLoad]_vars

-----------------------------------------------------------------------------
(* openai_api.py: wait_for_fine_tuning_job *)

\* Mutant of TerminalStatuses: a running job is taken for a finished one.
TerminalWithRunning == {"succeeded", "failed", "cancelled", "running"}

\* status in {"succeeded", "failed", "cancelled"}
TerminalStatuses == {"succeeded", "failed", "cancelled"}

\* Mutant of WaitElapsed: the seconds are compared with the minutes.
WaitElapsedInSeconds(seconds, minutes) == seconds >= minutes

\* elapsed_minutes >= max_wait_minutes, elapsed_minutes = seconds / 60.0
WaitElapsed(seconds, minutes) == seconds >= 60 * minutes

\* The time the waiter has measured, counted up to MaxClock.
ClockAfter(seconds) == Min2(clock + seconds, MaxClock)

\* The time one retrieve request may take, in seconds.
RetrieveSeconds == {0, 10}

WaitInit ==
    /\ job_status \in {"queued", "running"} \cup TerminalStatuses
    /\ poll_seconds \in {20, 30}
    /\ max_wait_minutes \in {0, 1, 2}
    /\ wait_pc = "poll"
    /\ clock = 0
    /\ observed = ""
    /\ requests = {}
    /\ OthersIdle("wait")

\* One turn of the loop up to the sleep: the job is retrieved, a terminal
\* status returns it, an elapsed maximum wait raises TimeoutError.
WaitPoll ==
    /\ wait_pc = "poll"
    /\ requests' = requests \cup {"retrieve"}
    /\ observed' = job_status
    /\ \E took \in RetrieveSeconds : clock' = ClockAfter(took)
    /\ wait_pc' =
         IF observed' \in TerminalStatuses THEN "returned"
         ELSE IF max_wait_minutes > 0 /\ WaitElapsed(clock', max_wait_minutes)
              THEN "timeout"
              ELSE "sleep"
    /\ UNCHANGED <<job_status, poll_seconds, max_wait_minutes>>
    /\ OthersUnchanged("wait")

\* time.sleep(poll_seconds)
WaitSleep ==
    /\ wait_pc = "sleep"
    /\ clock' = ClockAfter(poll_seconds)
    /\ wait_pc' = "poll"
    /\ UNCHANGED <<job_status, poll_seconds, max_wait_minutes, observed, requests>>
    /\ OthersUnchanged("wait")

\* The remote service moves the job on while the caller waits: a queued job
\* starts or ends, a running job ends; a finished job stays as it is.
RemoteStep ==
    /\ wait_pc \in {"poll", "sleep"}
    /\ \/ /\ job_status = "queued"
          /\ job_status' \in {"running", "failed", "cancelled"}
       \/ /\ job_status = "running"
          /\ job_status' \in TerminalStatuses
    /\ UNCHANGED <<poll_seconds, max_wait_minutes, wait_pc, clock, observed, requests>>
    /\ OthersUnchanged("wait")

NextWait == WaitPoll \/ WaitSleep \/ RemoteStep

SpecWait == WaitInit /\ [][NextWait]_vars

\* The caller's thread keeps running: a request is answered and a sleep ends.
\* Nothing makes the remote job move on.
SpecWaitLive == SpecWait /\ WF_vars(WaitPoll) /\ WF_vars(WaitSleep)

-----------------------------------------------------------------------------
(* cli.py: run_cv and train_final.  A dict is a function on its keys; None *)
(* is "None", and NoFiles where the value would be a dict.                 *)

\* d.get(key)
DictGet(d, key) == IF key \in DOMAIN d THEN d[key] ELSE "None"

\* _load_registry: the registry file, or the empty registry if there is none.
LoadRegistry(file) ==
    IF file = NoFiles
    THEN [cv_runs |-> <<>>, final_jobs |-> <<>>, latest_final_model |-> "None"]
    ELSE file

\* Mutant of AppendCvRun: the new entry replaces the list of cv_runs.
AppendCvRunReplaces(reg, entry) == [reg EXCEPT !.cv_runs = <<entry>>]

\* registry.setdefault("cv_runs", []).append(entry)
AppendCvRun(reg, entry) == [reg EXCEPT !.cv_runs = Append(@, entry)]

\* registry.setdefault("final_jobs", []).append(entry);
\* registry["latest_final_model"] = fine_tuned_model
AppendFinalJob(reg, entry) ==
    [reg EXCEPT !.final_jobs = Append(@, entry),
                !.latest_final_model = entry.fine_tuned_model]

\* The job wait_for_fine_tuning_job may return: a terminal status, and a
\* fine_tuned_model that is None, empty or a model name.
JobOutcomes ==
    [status : TerminalStatuses, fine_tuned_model : {"None", "", "ft:model"}]

\* Mutant of HasModel: only None counts as no model.
HasModelUnlessNone(model) == model # "None"

\* not "if not tuned_model": the model is neither None nor empty.
HasModel(model) == model \notin {"None", ""}

\* The registry files tried: none, or one that has entries already.
RegistryFiles ==
    { NoFiles,
      [cv_runs |-> << [run_id |-> "cv-old", selection |-> NoFiles, folds |-> <<>>] >>,
       final_jobs |-> << [status |-> "succeeded", fine_tuned_model |-> "ft:old"] >>,
       latest_final_model |-> "ft:old"] }

TrainInit ==
    /\ command \in {"run_cv", "train_final"}
    /\ no_wait \in BOOLEAN
    /\ skip_baseline \in (IF command = "run_cv" THEN BOOLEAN ELSE {FALSE})
    /\ missing_file \in (IF command = "run_cv" THEN {"none", "fold_a", "fold_b"}
                         ELSE {"none", "final"})
    /\ train_pc = (IF command = "run_cv" THEN "fold" ELSE "final_submit")
    /\ fold_index = 0
    /\ submitted = <<>>
    /\ jobs = <<>>
    /\ fold_reports = <<>>
    /\ evaluations = <<>>
    /\ run_files = NoFiles
    /\ registry \in RegistryFiles
    /\ train_error = "none"
    /\ OthersIdle("train")

\* run_cv, one turn of the loop up to the wait: the required files, the
\* uploads and the job; with no_wait the fold is reported as submitted.
CvSubmit ==
    /\ train_pc = "fold"
    /\ fold_index < Len(PAIR_FOLDS)
    /\ LET fold == PAIR_FOLDS[fold_index + 1]
           fold_report == [fold |-> fold.name, status |-> "submitted"]
       IN  IF missing_file = fold.name
           THEN /\ train_pc' = "error"
                /\ train_error' = "FileNotFoundError"
                /\ UNCHANGED <<fold_index, submitted, fold_reports, run_files>>
           ELSE /\ submitted' = Append(submitted, fold.name)
                /\ UNCHANGED train_error
                /\ IF no_wait
                   THEN /\ fold_reports' = Append(fold_reports, fold_report)
                        /\ run_files' = WriteFile(run_files, <<"cv_run", fold.name>>,
                                                  fold_report)
                        /\ fold_index' = fold_index + 1
                        /\ UNCHANGED train_pc
                   ELSE /\ train_pc' = "cv_waiting"
                        /\ UNCHANGED <<fold_index, fold_reports, run_files>>
    /\ UNCHANGED <<command, no_wait, skip_baseline, missing_file, jobs,
                   evaluations, registry>>
    /\ OthersUnchanged("train")

\* run_cv: wait_for_fine_tuning_job returns the fold's job; a status other
\* than succeeded, or no fine_tuned_model, raises RuntimeError.
CvJobEnds ==
    /\ train_pc = "cv_waiting"
    /\ \E job \in JobOutcomes :
         LET fold == PAIR_FOLDS[fold_index + 1]
             fold_report == [fold |-> fold.name, status |-> job.status,
                             job_final |-> job]
         IN  /\ jobs' = Append(jobs, [split |-> fold.name, job |-> job])
             /\ IF job.status # "succeeded"
                THEN /\ fold_reports' = Append(fold_reports, fold_report)
                     /\ run_files' = WriteFile(run_files, <<"cv_run", fold.name>>,
                                               fold_report)
                     /\ train_pc' = "error"
                     /\ train_error' = "RuntimeError"
                ELSE IF ~HasModel(job.fine_tuned_model)
                THEN /\ train_pc' = "error"
                     /\ train_error' = "RuntimeError"
                     /\ UNCHANGED <<fold_reports, run_files>>
                ELSE /\ train_pc' = "cv_evaluate"
                     /\ UNCHANGED <<fold_reports, run_files, train_error>>
    /\ UNCHANGED <<command, no_wait, skip_baseline, missing_file, fold_index,
                   submitted, evaluations, registry>>
    /\ OthersUnchanged("train")

\* run_cv, the rest of the turn: the tuned model is evaluated on the fold's
\* test records, the base model too unless skip_baseline, and the fold is
\* reported.  An evaluation is kept as its model and its score.
CvEvaluate ==
    /\ train_pc = "cv_evaluate"
    /\ \E tuned_score \in {0, 4}, baseline_score \in (IF skip_baseline THEN {0} ELSE {0, 4}) :
         LET fold == PAIR_FOLDS[fold_index + 1]
             final_job == jobs[Len(jobs)].job
             tuned_model == final_job.fine_tuned_model
             tuned_eval == [model |-> tuned_model, score |-> tuned_score]
             baseline_eval == IF skip_baseline THEN NoFiles
                              ELSE [model |-> "base", score |-> baseline_score]
             fold_report ==
                 [fold |-> fold.name, status |-> final_job.status,
                  job_final |-> final_job, tuned_model |-> tuned_model,
                  tuned_eval |-> tuned_eval, baseline_eval |-> baseline_eval,
                  non_regression_pass |->
                      IF skip_baseline THEN TRUE ELSE tuned_score >= baseline_score]
         IN  /\ evaluations' =
                  evaluations
                    \o << [split |-> fold.name, model |-> tuned_model] >>
                    \o (IF skip_baseline THEN <<>>
                        ELSE << [split |-> fold.name, model |-> "base"] >>)
             /\ fold_reports' = Append(fold_reports, fold_report)
             /\ run_files' = WriteFile(run_files, <<"cv_run", fold.name>>, fold_report)
    /\ fold_index' = fold_index + 1
    /\ train_pc' = "fold"
    /\ UNCHANGED <<command, no_wait, skip_baseline, missing_file, submitted,
                   jobs, registry, train_error>>
    /\ OthersUnchanged("train")

\* run_cv after the loop: summary.json and the registry entry.
CvSummary ==
    /\ train_pc = "fold"
    /\ fold_index = Len(PAIR_FOLDS)
    /\ LET completed == SelectSeq(fold_reports,
                                  LAMBDA report : "tuned_eval" \in DOMAIN report)
           RECURSIVE SumTuned(_)
           SumTuned(reports) ==
               IF reports = <<>> THEN 0
               ELSE Head(reports).tuned_eval.score + SumTuned(Tail(reports))
           selection ==
               IF completed = <<>> THEN NoFiles
               ELSE [mean_tuned_score |-> TrueDiv(SumTuned(completed), Len(completed)),
                     all_non_regression_pass |->
                         \A i \in DOMAIN completed : completed[i].non_regression_pass]
           summary == [run_id |-> "cv-new", no_wait |-> no_wait,
                       fold_reports |-> fold_reports, selection |-> selection]
           loaded == LoadRegistry(registry)
       IN  /\ run_files' = WriteFile(run_files, <<"cv_run", "summary">>, summary)
           /\ registry' =
                AppendCvRun(loaded,
                    [run_id |-> "cv-new", selection |-> selection,
                     folds |->
                         [i \in DOMAIN fold_reports |->
                             [name |-> fold_reports[i].fold,
                              status |-> DictGet(fold_reports[i], "status"),
                              tuned_model |->
                                  DictGet(fold_reports[i], "tuned_model"),
                              non_regression_pass |->
                                  DictGet(fold_reports[i],
                                          "non_regression_pass")]]])
    /\ train_pc' = "done"
    /\ UNCHANGED <<command, no_wait, skip_baseline, missing_file, fold_index,
                   submitted, jobs, fold_reports, evaluations, train_error>>
    /\ OthersUnchanged("train")

\* train_final up to the wait: the required files, the uploads and the job;
\* with no_wait the payload is saved as submitted.
FinalSubmit ==
    /\ train_pc = "final_submit"
    /\ IF missing_file = "final"
       THEN /\ train_pc' = "error"
            /\ train_error' = "FileNotFoundError"
            /\ UNCHANGED <<submitted, run_files>>
       ELSE /\ submitted' = Append(submitted, "final")
            /\ UNCHANGED train_error
            /\ IF no_wait
               THEN /\ run_files' = WriteFile(run_files, <<"final", "job">>,
                                              [status |-> "submitted"])
                    /\ train_pc' = "done"
               ELSE /\ train_pc' = "final_waiting"
                    /\ UNCHANGED run_files
    /\ UNCHANGED <<command, no_wait, skip_baseline, missing_file, fold_index,
                   jobs, fold_reports, evaluations, registry>>
    /\ OthersUnchanged("train")

\* train_final: wait_for_fine_tuning_job returns the job; a status other than
\* succeeded, or no fine_tuned_model, saves the payload and raises
\* RuntimeError; otherwise the model is written and registered.
FinalJobEnds ==
    /\ train_pc = "final_waiting"
    /\ \E job \in JobOutcomes :
         LET payload == [status |-> job.status, job_final |-> job]
             fine_tuned_model == job.fine_tuned_model
             loaded == LoadRegistry(registry)
         IN  /\ jobs' = Append(jobs, [split |-> "final", job |-> job])
             /\ IF job.status # "succeeded" \/ ~HasModel(fine_tuned_model)
                THEN /\ run_files' = WriteFile(run_files, <<"final", "job">>, payload)
                     /\ train_pc' = "error"
                     /\ train_error' = "RuntimeError"
                     /\ UNCHANGED registry
                ELSE /\ run_files' =
                          WriteFile(
                            WriteFile(
                              WriteFile(run_files, <<"final", "job">>,
                                        [status |-> job.status, job_final |-> job,
                                         fine_tuned_model |-> fine_tuned_model]),
                              <<"artifacts", "final_model.txt">>, fine_tuned_model),
                            <<"final", "final_model.txt">>, fine_tuned_model)
                     /\ registry' =
                          AppendFinalJob(loaded,
                              [status |-> job.status,
                               fine_tuned_model |-> fine_tuned_model])
                     /\ train_pc' = "done"
                     /\ UNCHANGED train_error
    /\ UNCHANGED <<command, no_wait, skip_baseline, missing_file, fold_index,
                   submitted, fold_reports, evaluations>>
    /\ OthersUnchanged("train")

\* Mutant of WaitTimesOut: in run_cv a timed-out fold is reported and the
\* loop goes on with the next fold.
WaitTimesOutSkipsFold ==
    /\ train_pc \in {"cv_waiting", "final_waiting"}
    /\ IF train_pc = "cv_waiting"
       THEN /\ fold_reports' =
                 Append(fold_reports,
                        [fold |-> PAIR_FOLDS[fold_index + 1].name, status |-> "timeout"])
            /\ fold_index' = fold_index + 1
            /\ train_pc' = "fold"
       ELSE /\ train_pc' = "error"
            /\ UNCHANGED <<fold_index, fold_reports>>
    /\ train_error' = "TimeoutError"
    /\ UNCHANGED <<command, no_wait, skip_baseline, missing_file, submitted,
                   jobs, evaluations, run_files, registry>>
    /\ OthersUnchanged("train")

\* wait_for_fine_tuning_job raises TimeoutError, and so does the command.
WaitTimesOut ==
    /\ train_pc \in {"cv_waiting", "final_waiting"}
    /\ train_pc' = "error"
    /\ train_error' = "TimeoutError"
    /\ UNCHANGED <<command, no_wait, skip_baseline, missing_file, fold_index,
                   submitted, jobs, fold_reports, evaluations, run_files, registry>>
    /\ OthersUnchanged("train")

NextTrain ==
    \/ CvSubmit \/ CvJobEnds \/ CvEvaluate \/ CvSummary
    \/ FinalSubmit \/ FinalJobEnds \/ WaitTimesOut

SpecTrain == TrainInit /\ [][NextTrain]_vars

-----------------------------------------------------------------------------
(* cli.py: the registry update of run_cv and train_final when several      *)
(* invocations use the same model_registry.json.  An invocation is one     *)
(* process; nothing in the code locks the file.                            *)

Invocations == 1..NumInvocations

\* run_slug = f"cv-{_timestamp_slug()}": one run id per invocation.
RunIds == << "cv-1", "cv-2", "cv-3", "cv-4" >>

\* The fine_tuned_model of the job of an invocation of train_final.
TunedModels == << "ft:1", "ft:2", "ft:3", "ft:4" >>

\* The cv_runs entry run_cv appends.
CvRunEntry(p) == [run_id |-> RunIds[p], selection |-> NoFiles, folds |-> <<>>]

\* The final_jobs entry train_final appends.
FinalJobEntry(p) == [status |-> "succeeded", fine_tuned_model |-> TunedModels[p]]

RegInit ==
    /\ reg_file \in RegistryFiles
    /\ serialized \in BOOLEAN
    /\ reg_cmd \in [Invocations -> {"run_cv", "train_final"}]
    /\ reg_pc = [p \in Invocations |-> "idle"]
    /\ reg_mem = [p \in Invocations |-> NoFiles]
    /\ OthersIdle("reg")

\* The operator starts invocation p; when invocations are serialized, only
\* after every earlier one has ended.
RegInvoke(p) ==
    /\ reg_pc[p] = "idle"
    /\ serialized => \A q \in Invocations \ {p} :
                        reg_pc[q] \in {"idle", "saved", "returned"}
    /\ reg_pc' = [reg_pc EXCEPT ![p] = "running"]
    /\ UNCHANGED <<reg_file, serialized, reg_cmd, reg_mem>>
    /\ OthersUnchanged("reg")

\* The invocation ends before its registry update: an exception, or
\* train_final with no_wait.
RegReturn(p) ==
    /\ reg_pc[p] = "running"
    /\ reg_pc' = [reg_pc EXCEPT ![p] = "returned"]
    /\ UNCHANGED <<reg_file, serialized, reg_cmd, reg_mem>>
    /\ OthersUnchanged("reg")

\* registry = _load_registry()
RegLoad(p) ==
    /\ reg_pc[p] = "running"
    /\ reg_mem' = [reg_mem EXCEPT ![p] = LoadRegistry(reg_file)]
    /\ reg_pc' = [reg_pc EXCEPT ![p] = "loaded"]
    /\ UNCHANGED <<reg_file, serialized, reg_cmd>>
    /\ OthersUnchanged("reg")

\* Mutant of RegSave: the entry is appended to the file as it is when it is
\* written, not to the local registry read earlier.
RegSaveReloads(p) ==
    /\ reg_pc[p] = "loaded"
    /\ reg_mem' = [reg_mem EXCEPT ![p] =
                      IF reg_cmd[p] = "run_cv"
                      THEN AppendCvRun(@, CvRunEntry(p))
                      ELSE AppendFinalJob(@, FinalJobEntry(p))]
    /\ reg_file' = IF reg_cmd[p] = "run_cv"
                   THEN AppendCvRun(LoadRegistry(reg_file), CvRunEntry(p))
                   ELSE AppendFinalJob(LoadRegistry(reg_file), FinalJobEntry(p))
    /\ reg_pc' = [reg_pc EXCEPT ![p] = "saved"]
    /\ UNCHANGED <<serialized, reg_cmd>>
    /\ OthersUnchanged("reg")

\* The entry is appended to the local registry, and _save_registry(registry)
\* writes the whole of it over the file.
RegSave(p) ==
    /\ reg_pc[p] = "loaded"
    /\ reg_mem' = [reg_mem EXCEPT ![p] =
                      IF reg_cmd[p] = "run_cv"
                      THEN AppendCvRun(@, CvRunEntry(p))
                      ELSE AppendFinalJob(@, FinalJobEntry(p))]
    /\ reg_file' = reg_mem'[p]
    /\ reg_pc' = [reg_pc EXCEPT ![p] = "saved"]
    /\ UNCHANGED <<serialized, reg_cmd>>
    /\ OthersUnchanged("reg")

NextRegistry ==
    \E p \in Invocations : RegInvoke(p) \/ RegReturn(p) \/ RegLoad(p) \/ RegSave(p)

SpecRegistry == RegInit /\ [][NextRegistry]_vars

-----------------------------------------------------------------------------
(* Claims about stratified_split (SpecSplit) *)

\* The input list of call c of stratified_split.
SplitInput(c) == IF c = 1 THEN examples ELSE examples2

\* C1: for every example list with distinct user_ids, every val_fraction with
\* 0 < val_fraction < 1 and every seed, stratified_split returns (train, val)
\* whose user-id sets are disjoint and whose union is exactly the input set:
\* no example is lost and none is duplicated.
C1_SplitPartition ==
    \A c \in DOMAIN split_out :
        (0 < val_fraction[1] /\ val_fraction[1] < val_fraction[2]) =>
            LET out == split_out[c]
            IN  /\ out.error = "none"
                /\ UserIdSet(out.train) \cap UserIdSet(out.val) = {}
                /\ UserIdSet(out.train) \cup UserIdSet(out.val) = UserIdSet(SplitInput(c))
                /\ Range(out.train) \cup Range(out.val) = Range(SplitInput(c))
                /\ Len(out.train) + Len(out.val) = Len(SplitInput(c))

\* C1 witness: a call on four or more examples returned a non-empty train and
\* a non-empty val list.
C1_Witness ==
    /\ split_pc = "called"
    /\ Len(examples) >= 4
    /\ split_out[1].error = "none"
    /\ split_out[1].train # <<>>
    /\ split_out[1].val # <<>>

\* C4: stratified_split is deterministic: two calls with the same example set,
\* val_fraction and seed return identical train and val lists, whatever the
\* order of the examples in the input list, and both lists are returned
\* sorted by user_id.
C4_SplitDeterministic ==
    /\ split_pc = "recalled" => split_out[2] = split_out[1]
    /\ \A c \in DOMAIN split_out :
         /\ \A i, j \in DOMAIN split_out[c].train :
              i < j => split_out[c].train[i].user_id < split_out[c].train[j].user_id
         /\ \A i, j \in DOMAIN split_out[c].val :
              i < j => split_out[c].val[i].user_id < split_out[c].val[j].user_id

\* C4 witness: the second call was made on a different order of a list that
\* has a bucket of three, and the split is not empty.
C4_Witness ==
    /\ split_pc = "recalled"
    /\ examples2 # examples
    /\ \E key \in Range(BucketKeysSorted) : Len(ByBucket(examples, key)) = 3
    /\ split_out[2].val # <<>>

\* C5: for every (label, lang) bucket of size k and every valid val_fraction
\* f = num / den, the number v of bucket members placed in validation is 0 when
\* k <= 1, and otherwise min(max(1, round(k * f)), k - 1), round being the
\* nearest integer with a tie going to the even one; so 1 <= v <= k - 1, and
\* every non-empty bucket contributes at least one training example.
C5_BucketFloorCeiling ==
    (split_pc # "ready" /\ split_out[1].error = "none") =>
        \A label \in Labels, lang \in Langs :
            LET member(ex) == ex.label = label /\ ex.lang = lang
                k == Cardinality({ i \in DOMAIN examples : member(examples[i]) })
                v == Cardinality({ i \in DOMAIN split_out[1].val :
                                     member(split_out[1].val[i]) })
                t == Cardinality({ i \in DOMAIN split_out[1].train :
                                     member(split_out[1].train[i]) })
                num == k * val_fraction[1]
                den == val_fraction[2]
                nearest(r) ==
                    \/ (2 * (den * r - num) < den /\ 2 * (num - den * r) < den)
                    \/ (2 * (den * r - num) = den /\ r % 2 = 0)
                    \/ (2 * (num - den * r) = den /\ r % 2 = 0)
            IN  /\ k <= 1 => v = 0
                /\ k >= 2 =>
                     /\ 1 <= v /\ v <= k - 1
                     /\ \E r \in 0..k :
                          /\ nearest(r)
                          /\ v = (IF r < 1 THEN 1 ELSE IF r > k - 1 THEN k - 1 ELSE r)
                /\ k >= 1 => t >= 1
                /\ v + t = k

\* C5 witness: a bucket of five was split with val_fraction 1/2, where
\* k * f = 2.5 is a tie, and two of its members went to validation.
C5_Witness ==
    /\ split_pc = "called"
    /\ val_fraction = <<1, 2>>
    /\ \E key \in Range(BucketKeysSorted) :
         /\ Len(ByBucket(examples, key)) = 5
         /\ Len(ByBucket(split_out[1].val, key)) = 2

-----------------------------------------------------------------------------
(* Claims about prepare_data and PAIR_FOLDS (SpecPrepare) *)

\* The user ids of the rows of a metadata file.
FileIds(path) == { prepared[path][i].user_id : i \in DOMAIN prepared[path] }

\* C2: for each pair fold built by prepare_data, the train, val and test
\* user-id sets are pairwise disjoint, train + val is exactly the examples
\* whose dataset_id is in the fold's train_dataset_ids, and test is exactly
\* the examples whose dataset_id is in its test_dataset_ids.
C2_FoldsLeakFree ==
    \A i \in DOMAIN folds_out :
        LET fold == folds_out[i]
            train == <<fold.name, "train.meta.jsonl">>
            val == <<fold.name, "val.meta.jsonl">>
            test == <<fold.name, "test.meta.jsonl">>
            from(ids) ==
                { ToMetadata(examples[j]) :
                    j \in { n \in DOMAIN examples :
                              \E d \in DOMAIN ids : examples[n].dataset_id = ids[d] } }
        IN  /\ {train, val, test} \subseteq DOMAIN prepared
            /\ FileIds(train) \cap FileIds(val) = {}
            /\ FileIds(train) \cap FileIds(test) = {}
            /\ FileIds(val) \cap FileIds(test) = {}
            /\ Range(prepared[train]) \cup Range(prepared[val])
                 = from(fold.train_dataset_ids)
            /\ Range(prepared[test]) = from(fold.test_dataset_ids)
            /\ Len(prepared[train]) + Len(prepared[val])
                 = Cardinality(from(fold.train_dataset_ids))
            /\ Len(prepared[test]) = Cardinality(from(fold.test_dataset_ids))
            /\ fold.train_val_overlap = 0
            /\ fold.train_test_overlap = 0
            /\ fold.val_test_overlap = 0

\* C2 witness: prepare_data finished and wrote a fold whose train, val and
\* test files are all non-empty.
C2_Witness ==
    /\ prep_pc = "done"
    /\ \E i \in DOMAIN folds_out :
         /\ folds_out[i].train_count > 0
         /\ folds_out[i].val_count > 0
         /\ folds_out[i].test_count > 0

\* C3: for each configured pair fold, train_dataset_ids and test_dataset_ids
\* have no dataset id in common; exactly two folds are configured, and each
\* fold's test datasets are the other fold's train datasets.
C3_FoldsDisjoint ==
    /\ Len(PAIR_FOLDS) = 2
    /\ \A i \in DOMAIN PAIR_FOLDS :
         Range(PAIR_FOLDS[i].train_dataset_ids)
           \cap Range(PAIR_FOLDS[i].test_dataset_ids) = {}
    /\ PAIR_FOLDS[1].test_dataset_ids = PAIR_FOLDS[2].train_dataset_ids
    /\ PAIR_FOLDS[2].test_dataset_ids = PAIR_FOLDS[1].train_dataset_ids
    /\ \A i \in DOMAIN folds_out :
         /\ folds_out[i].train_dataset_ids = PAIR_FOLDS[i].train_dataset_ids
         /\ folds_out[i].test_dataset_ids = PAIR_FOLDS[i].test_dataset_ids
         /\ Range(folds_out[i].train_dataset_ids)
              \cap Range(folds_out[i].test_dataset_ids) = {}

\* C3 witness: prepare_data went through both configured folds, each with
\* examples on both sides.
C3_Witness ==
    /\ prep_pc = "done"
    /\ Len(folds_out) = 2
    /\ \A i \in DOMAIN folds_out :
         folds_out[i].train_count > 0 /\ folds_out[i].test_count > 0

-----------------------------------------------------------------------------
(* Claims about compute_metrics (SpecMetrics) *)

\* The input list of call c of compute_metrics.
MetricsInput(c) == IF c = 1 THEN points ELSE points2

\* C6: compute_metrics counts each point in exactly one of tp (truth BOT,
\* predicted BOT), fn (truth BOT, predicted HUMAN), fp (truth HUMAN, predicted
\* BOT) and tn (truth HUMAN, predicted HUMAN), so that tp + tn + fp + fn =
\* total, bots = tp + fn, humans = fp + tn and bots + humans = total.
C6_MetricsTotals ==
    \A c \in DOMAIN met_out :
        LET m == met_out[c]
            pts == MetricsInput(c)
            n(is, said) ==
                Cardinality({ i \in DOMAIN pts :
                                /\ pts[i].truth_label = is
                                /\ pts[i].predicted_label = said })
        IN  /\ m.total = Len(pts)
            /\ m.tp = n("BOT", "BOT")
            /\ m.fn = n("BOT", "HUMAN")
            /\ m.fp = n("HUMAN", "BOT")
            /\ m.tn = n("HUMAN", "HUMAN")
            /\ m.tp + m.tn + m.fp + m.fn = m.total
            /\ m.bots = m.tp + m.fn
            /\ m.humans = m.fp + m.tn
            /\ m.bots + m.humans = m.total

\* C6 witness: a call counted at least one point of each of the four kinds.
C6_Witness ==
    /\ met_pc = "called"
    /\ met_out[1].tp > 0 /\ met_out[1].fn > 0
    /\ met_out[1].fp > 0 /\ met_out[1].tn > 0

\* C7: compute_metrics returns score = 4*tp - 2*fp - fn and max_score =
\* 4*bots; so score <= max_score, with equality exactly when fn = 0 and fp = 0.
C7_ScoreFormula ==
    \A c \in DOMAIN met_out :
        LET m == met_out[c]
        IN  /\ m.score = 4 * m.tp - 2 * m.fp - m.fn
            /\ m.max_score = 4 * m.bots
            /\ m.score <= m.max_score
            /\ (m.score = m.max_score) <=> (m.fn = 0 /\ m.fp = 0)

\* C7 witness: the case tp = 3, fp = 1, fn = 2, scored 8 out of 20 (40 %).
C7_Witness ==
    /\ met_pc = "called"
    /\ met_out[1].tp = 3 /\ met_out[1].fp = 1 /\ met_out[1].fn = 2
    /\ met_out[1].score = 8
    /\ met_out[1].max_score = 20
    /\ met_out[1].pct_max.num = 40 * met_out[1].pct_max.den

\* C8: compute_metrics is order-independent: for any list of points and any
\* reordering of it, the returned Metrics are identical in every field.
C8_OrderIndependent ==
    met_pc = "recalled" => met_out[2] = met_out[1]

\* C8 witness: the second call was made on a different order of three points
\* that are not all of one kind.
C8_Witness ==
    /\ met_pc = "recalled"
    /\ points2 # points
    /\ Len(points) = 3
    /\ met_out[2].tp > 0 /\ met_out[2].fp > 0 /\ met_out[2].tn > 0

\* C9: compute_metrics never divides by zero: accuracy is 0 when total is 0
\* and pct_max is 0 whenever max_score is 0 (no bots), a negative score
\* included; otherwise accuracy = 100 * (tp + tn) / total and pct_max =
\* 100 * score / max_score.
C9_NoDivisionByZero ==
    \A c \in DOMAIN met_out :
        LET m == met_out[c]
        IN  /\ m.error = "none"
            /\ m.accuracy.den # 0 /\ m.pct_max.den # 0
            /\ m.total = 0 => m.accuracy.num = 0
            /\ m.max_score = 0 => m.pct_max.num = 0
            /\ m.total # 0 =>
                 m.accuracy.num = 100 * (m.tp + m.tn) /\ m.accuracy.den = m.total
            /\ m.max_score # 0 =>
                 m.pct_max.num = 100 * m.score /\ m.pct_max.den = m.max_score

\* C9 witness: a call on points without any bot, a human among them flagged,
\* so that max_score is 0 and the score is negative.
C9_Witness ==
    /\ met_pc = "called"
    /\ met_out[1].bots = 0
    /\ met_out[1].score < 0
    /\ met_out[1].pct_max.num = 0

-----------------------------------------------------------------------------
(* Claims about the run-checker (SpecChecker) *)

\* C10: predicted ids that are not keys of the loaded ground truth are removed
\* from the predicted set before scoring, so they change none of tp, fp, fn,
\* tn; after the removal tp + fp + fn + tn equals the number of ground-truth
\* users, and the unknown count is the number of distinct predicted ids
\* absent from ground truth.
C10_UnknownIdsExcluded ==
    LET in_file == { lines[i] : i \in { j \in DOMAIN lines : j > 1 /\ lines[j] # "" } }
        known == { u \in in_file : u \in DOMAIN truth }
        n(is_bot, flagged) ==
            Cardinality({ u \in DOMAIN truth :
                            truth[u] = is_bot /\ (u \in known) = flagged })
        warnings == { i \in DOMAIN printed :
                        printed[i].msg = "Warning: predicted user ID(s) not in datasets" }
    IN  /\ chk_pc \in {"score", "done"} =>
             /\ predicted_bots = known
             /\ predicted_bots \cap unknown = {}
             /\ Cardinality(unknown) = Cardinality(in_file) - Cardinality(known)
             /\ unknown \cap DOMAIN truth = {}
             /\ \A i \in warnings : printed[i].n = Cardinality(in_file \ known)
             /\ (warnings # {}) <=> (in_file \ known # {})
        /\ chk_pc = "done" =>
             /\ counts.tp = n(TRUE, TRUE)
             /\ counts.fn = n(TRUE, FALSE)
             /\ counts.fp = n(FALSE, TRUE)
             /\ counts.tn = n(FALSE, FALSE)
             /\ counts.tp + counts.fp + counts.fn + counts.tn
                  = Cardinality(DOMAIN truth)

\* C10 witness: truth {a: HUMAN, b: BOT}, predicted {b, c} with c unknown:
\* the run is scored on {b}, tp = 1, fp = 0, fn = 0, tn = 1, one unknown id.
C10_Witness ==
    /\ chk_pc = "done"
    /\ DOMAIN truth = {"a", "b"}
    /\ ~truth["a"] /\ truth["b"]
    /\ PredictedLines(lines) = {"b", "c"}
    /\ predicted_bots = {"b"}
    /\ counts.tp = 1 /\ counts.fp = 0 /\ counts.fn = 0 /\ counts.tn = 1
    /\ Cardinality(unknown) = 1

\* The ground-truth users as a list, in some order.
RECURSIVE SetToSeq(_)
SetToSeq(S) ==
    IF S = {} THEN <<>>
    ELSE LET x == CHOOSE y \in S : TRUE
         IN  <<x>> \o SetToSeq(S \ {x})

\* One point per ground-truth user: the truth label from ground truth, the
\* predicted label BOT exactly when the user id is in the predicted set.
TruthPoints(t, u, predicted) ==
    LET ids == SetToSeq(DOMAIN t)
    IN  [i \in 1..Len(ids) |->
            ClassificationPoint(ids[i], u[ids[i]].dataset,
                                IF t[ids[i]] THEN "BOT" ELSE "HUMAN",
                                IF ids[i] \in predicted THEN "BOT" ELSE "HUMAN")]

\* C11: the run-checker's set-based tp, fp, fn, tn, accuracy and score equal
\* what compute_metrics returns for the point set that has one point per
\* ground-truth user, with truth label taken from ground truth and predicted
\* label BOT exactly when the user id is in the (known) predicted set.
C11_CheckerMatchesMetrics ==
    chk_pc = "done" =>
        LET known == PredictedLines(lines) \cap DOMAIN truth
            m == ComputeMetrics(TruthPoints(truth, users, known))
        IN  /\ counts.tp = m.tp
            /\ counts.fp = m.fp
            /\ counts.fn = m.fn
            /\ counts.tn = m.tn
            /\ counts.total = m.total
            /\ counts.actual_bots = m.bots
            /\ counts.actual_humans = m.humans
            /\ counts.pct_correct = m.accuracy
            /\ counts.score = m.score
            /\ results["r.results.txt"].counts = counts

\* C11 witness: a report on truth {a: HUMAN, b: BOT} with both flagged: one
\* true positive and one false positive, score 4 - 2 = 2, half correct.
C11_Witness ==
    /\ chk_pc = "done"
    /\ counts.tp = 1 /\ counts.fp = 1 /\ counts.fn = 0 /\ counts.tn = 0
    /\ counts.score = 2
    /\ counts.pct_correct.num = 50 * counts.pct_correct.den

\* C19: the run-checker exits with non-zero status, without computing or
\* persisting any report, in each of these cases checked in this order: no
\* argument given, run file not found, run file empty, first line not
\* parseable as a datasets declaration, zero ground-truth users loaded; in
\* every other case it prints the report and persists it to the results
\* directory.
C19_CheckerExits ==
    LET declared == IF lines = <<>> THEN <<>> ELSE ParseDatasetsLine(lines[1])
        no_users == \A i \in DOMAIN declared :
                       \/ ~dataset_files[declared[i]].json_exists
                       \/ dataset_files[declared[i]].users = {}
        failure ==
            IF argv = <<>> THEN "Usage"
            ELSE IF ~run_exists THEN "Error: run file not found"
            ELSE IF lines = <<>> THEN "Error: run file is empty"
            ELSE IF lines[1] \notin { "Datasets: 30, 31", "Datasets: 31, 30",
                                      "datasets: 30", "Datasets: 31" }
                 THEN "Error: could not parse datasets"
            ELSE IF no_users THEN "Error: no users loaded"
            ELSE "none"
        reports == { i \in DOMAIN printed : printed[i].msg = "report" }
    IN  /\ chk_pc = "exit1" =>
             /\ failure # "none"
             /\ printed[Len(printed)].msg = failure
             /\ reports = {}
             /\ counts = NoCounts
        /\ chk_pc = "done" =>
             /\ failure = "none"
             /\ reports = {Len(printed)}
             /\ DOMAIN results = {"r.results.txt"}
             /\ results["r.results.txt"] = printed[Len(printed)].report
             /\ results["r.results.txt"].counts = counts
        /\ chk_pc # "done" => results = NoFiles /\ reports = {}
        /\ failure # "none" => chk_pc \in {"open", "truth", "exit1"}
        /\ failure \notin {"none", "Error: no users loaded"} =>
             chk_pc \in {"open", "exit1"}
        /\ chk_pc \notin {"done", "exit1"} => ENABLED NextChecker

\* C19 witness: both declared datasets lack their JSON file: two warnings,
\* then the error that no users were loaded, and exit status 1.
C19_Witness ==
    /\ chk_pc = "exit1"
    /\ Len(dataset_ids) = 2
    /\ Len(printed) = 3
    /\ printed[1].msg = "Warning: dataset not found"
    /\ printed[3].msg = "Error: no users loaded"
    /\ results = NoFiles

\* C20: in the run-checker's ground truth, after loading any list of dataset
\* ids, a user id is labelled BOT exactly when it appears in the user list of
\* some loaded dataset and in that same dataset's bot file, and HUMAN
\* otherwise; in particular the labels do not depend on the order in which
\* the dataset ids are listed.
C20_TruthPerDataset ==
    chk_pc \in {"predicted", "report", "done"} =>
        LET loaded == { n \in Range(dataset_ids) : dataset_files[n].json_exists }
            listed == UNION { dataset_files[n].users : n \in loaded }
            bot_in_own_dataset(u) ==
                \E n \in loaded :
                    /\ u \in dataset_files[n].users
                    /\ dataset_files[n].bots_exists
                    /\ u \in dataset_files[n].bots
            reversed == [i \in DOMAIN dataset_ids |->
                            dataset_ids[Len(dataset_ids) + 1 - i]]
            other_order == LoadUsersAndBots(reversed, dataset_files,
                              [truth |-> NoFiles, users |-> NoFiles, printed |-> <<>>])
        IN  /\ DOMAIN truth = listed
            /\ \A u \in DOMAIN truth : truth[u] <=> bot_in_own_dataset(u)
            /\ other_order.truth = truth

\* C20 failing run: datasets 30 then 31; user b is in both user lists and in
\* the bot file of 30 only, user a is in the user list of 30 only and in the
\* bot file of 31 only.  The ground truth calls a a bot and b a human.
C20_FailingRun ==
    /\ chk_pc = "done"
    /\ dataset_ids = <<30, 31>>
    /\ dataset_files[30].users = {"a", "b"}
    /\ dataset_files[30].bots_exists /\ dataset_files[30].bots = {"b"}
    /\ dataset_files[31].users = {"b"}
    /\ dataset_files[31].bots_exists /\ dataset_files[31].bots = {"a"}
    /\ truth["a"] = TRUE
    /\ truth["b"] = FALSE

\* C21: the optional metadata lines of a run file (Detector, Model, Batch
\* size) are ignored by the run-checker: they are not taken as predicted-bot
\* user ids, so they appear neither in the predicted set nor in the
\* unknown-id count or warning; only the non-empty lines after the blank
\* separator are predicted ids.
C21_MetadataIgnored ==
    chk_pc \in {"score", "done"} =>
        LET metadata == { "Model: m" }
            rest == Tail(lines)
            blanks == { i \in DOMAIN rest : rest[i] = "" }
            separator == CHOOSE i \in blanks : \A j \in blanks : i <= j
            well_formed ==
                /\ blanks # {}
                /\ \A i \in 1..(separator - 1) : rest[i] \in metadata
            after_separator ==
                { rest[i] : i \in (separator + 1)..Len(rest) } \ {""}
            warnings == { i \in DOMAIN printed :
                printed[i].msg = "Warning: predicted user ID(s) not in datasets" }
        IN  /\ predicted_bots \cap metadata = {}
            /\ unknown \cap metadata = {}
            /\ \A i \in warnings : printed[i].n = Cardinality(unknown \ metadata)
            /\ well_formed => /\ predicted_bots \cup unknown = after_separator
                              /\ (after_separator \subseteq DOMAIN truth
                                    => warnings = {})

\* C21 failing run: the run file declares dataset 31, carries one metadata
\* line and the blank separator, and predicts nobody.  The checker has taken
\* the metadata line as a predicted id and warned about one unknown id.
C21_FailingRun ==
    /\ chk_pc = "done"
    /\ lines = << "Datasets: 31", "Model: m", "" >>
    /\ unknown = { "Model: m" }
    /\ printed[Len(printed) - 1] =
         [msg |-> "Warning: predicted user ID(s) not in datasets", n |-> 1]

\* The warnings load_users_and_bots is expected to print for the ids, in order.
RECURSIVE ExpectedWarnings(_, _)
ExpectedWarnings(ids, files) ==
    IF ids = <<>> THEN <<>>
    ELSE LET n == Head(ids)
         IN  (IF ~files[n].json_exists
                THEN << [msg |-> "Warning: dataset not found", n |-> n] >>
              ELSE IF ~files[n].bots_exists
                THEN << [msg |-> "Warning: bot labels not found", n |-> n] >>
              ELSE <<>>)
             \o ExpectedWarnings(Tail(ids), files)

\* C22 as stated: a dataset whose files are missing (the JSON or the bot
\* file) produces a warning and is skipped: it contributes no users to ground
\* truth, the remaining datasets are still loaded, and the warning alone
\* never aborts the run or changes control flow.
C22_MissingFilesSkipped ==
    chk_pc \in {"predicted", "score", "done"} =>
        LET complete == { n \in Range(dataset_ids) :
                            /\ dataset_files[n].json_exists
                            /\ dataset_files[n].bots_exists }
        IN  DOMAIN truth = UNION { dataset_files[n].users : n \in complete }

\* C22 amended: a dataset whose JSON file is missing produces a warning and is
\* skipped: it contributes no users, and the ground truth is the one obtained
\* from the declared ids without it.  A dataset whose bot file alone is
\* missing produces a warning and still contributes its users, none of which
\* it marks as a bot.  One warning is printed per such dataset, in the order
\* declared, and the run goes on exactly when some user was loaded.
C22_MissingDatasetSkipped ==
    LET loading_done ==
            \/ chk_pc \in {"predicted", "score", "done"}
            \/ /\ chk_pc = "exit1"
               /\ printed[Len(printed)].msg = "Error: no users loaded"
        has_json(n) == dataset_files[n].json_exists
        present == SelectSeq(dataset_ids, has_json)
        without_missing ==
            LoadUsersAndBots(present, dataset_files,
                [truth |-> NoFiles, users |-> NoFiles, printed |-> <<>>])
        is_warning(p) == p.msg \in { "Warning: dataset not found",
                                     "Warning: bot labels not found" }
    IN  loading_done =>
          /\ DOMAIN truth = UNION { dataset_files[n].users : n \in Range(present) }
          /\ truth = without_missing.truth
          /\ users = without_missing.users
          /\ \A n \in Range(present) :
               ~dataset_files[n].bots_exists /\ Len(present) = 1
                 => \A u \in dataset_files[n].users : u \in DOMAIN truth /\ ~truth[u]
          /\ SelectSeq(printed, is_warning)
               = ExpectedWarnings(dataset_ids, dataset_files)
          /\ (chk_pc = "exit1") <=> (DOMAIN truth = {})
          /\ chk_pc # "exit1" => ENABLED NextChecker \/ chk_pc = "done"

\* C22 witness: dataset 31 is declared first and its JSON is missing; dataset
\* 30 lacks its bot file.  Two warnings, yet the users of 30 are loaded as
\* humans and the report is written.
C22_Witness ==
    /\ chk_pc = "done"
    /\ dataset_ids = <<31, 30>>
    /\ ~dataset_files[31].json_exists
    /\ dataset_files[30].json_exists /\ ~dataset_files[30].bots_exists
    /\ dataset_files[30].users = {"a", "b"}
    /\ Len(printed) = 3
    /\ printed[1] = [msg |-> "Warning: dataset not found", n |-> 31]
    /\ printed[2] = [msg |-> "Warning: bot labels not found", n |-> 30]
    /\ truth = [u \in {"a", "b"} |-> FALSE]
    /\ DOMAIN results = {"r.results.txt"}

-----------------------------------------------------------------------------
(* Claims about normalize_label (SpecNormalize) *)

\* C12: normalize_label maps raw classifier text (after trimming and
\* upper-casing) to BOT if it starts with BOT, else to HUMAN if it starts with
\* HUMAN, else to BOT if it contains BOT and not HUMAN, else to HUMAN if it
\* contains HUMAN and not BOT, and to invalid (None) in every other case: empty
\* text, neither keyword, or both keywords without a keyword prefix.
C12_NormalizeLabel ==
    norm_pc = "called" =>
        LET text == Upper(Strip(raw_text))
            at(w, i) == /\ i + Len(w) - 1 <= Len(text)
                        /\ \A k \in DOMAIN w : text[i + k - 1] = w[k]
            has(w) == \E i \in DOMAIN text : at(w, i)
            starts(w) == text # <<>> /\ at(w, 1)
        IN  /\ \A i \in DOMAIN text : text[i] \notin Range(LowerLetters)
            /\ text # <<>> => text[1] # " " /\ text[Len(text)] # " "
            /\ text = <<>> <=> \A i \in DOMAIN raw_text : raw_text[i] = " "
            /\ norm_out =
                 (IF starts(BotWord) THEN "BOT"
                  ELSE IF starts(HumanWord) THEN "HUMAN"
                  ELSE IF has(BotWord) /\ ~has(HumanWord) THEN "BOT"
                  ELSE IF has(HumanWord) /\ ~has(BotWord) THEN "HUMAN"
                  ELSE "None")
            /\ norm_out = "None" <=>
                 \/ text = <<>>
                 \/ ~has(BotWord) /\ ~has(HumanWord)
                 \/ /\ has(BotWord) /\ has(HumanWord)
                    /\ ~starts(BotWord) /\ ~starts(HumanWord)

\* C12 witness: "x bot human" holds both keywords and starts with neither,
\* and was found invalid.
C12_Witness ==
    /\ norm_pc = "called"
    /\ raw_text = <<"x", "b", "o", "t", "h", "u", "m", "a", "n">>
    /\ norm_out = "None"

-----------------------------------------------------------------------------
(* Claims about evaluate_records (SpecEvaluate) *)

\* The raw output of the response to the k-th classifier call.
RawOutput(k) ==
    IF api_log[2 * k].content.none THEN <<>> ELSE api_log[2 * k].content.text

\* The records gone through so far whose classifier output is invalid.
InvalidRecords ==
    { k \in 1..eval_index : NormalizeLabel(RawOutput(k)) = "None" }

\* C13: during evaluation, every record whose classifier output is invalid
\* gets predicted label HUMAN and still yields a classification point (the run
\* never aborts on it); invalid_output_count equals the number of such
\* records, and invalid_examples holds exactly the first
\* min(10, invalid_output_count) of them in record order with their user id
\* and raw output.
C13_InvalidOutputs ==
    /\ Len(eval_points) = eval_index
    /\ LET invalid == InvalidRecords
       IN  /\ \A k \in invalid :
                /\ eval_points[k].user_id = eval_records[k].user_id
                /\ eval_points[k].predicted_label = "HUMAN"
           /\ invalid_output_count = Cardinality(invalid)
           /\ Len(invalid_examples) =
                (IF invalid_output_count < 10 THEN invalid_output_count ELSE 10)
           /\ \A j \in DOMAIN invalid_examples :
                \E k \in invalid :
                   /\ Cardinality({ i \in invalid : i <= k }) = j
                   /\ invalid_examples[j] =
                        [user_id |-> eval_records[k].user_id,
                         raw_output |-> RawOutput(k)]
    /\ eval_pc = "error" => api_log[Len(api_log)].kind = "error"
    /\ eval_pc = "done" =>
         /\ eval_index = Len(eval_records)
         /\ eval_out.invalid_output_count = invalid_output_count
         /\ eval_out.invalid_examples = invalid_examples
         /\ eval_out.metrics.total = Len(eval_records)

\* C13 witness: a finished run of twelve records, the first answered BOT and
\* the eleven others invalid: ten examples are kept, the twelfth record's is
\* not.
C13_Witness ==
    /\ eval_pc = "done"
    /\ Len(eval_points) = 12
    /\ eval_points[1].predicted_label = "BOT"
    /\ invalid_output_count = 11
    /\ Len(invalid_examples) = 10
    /\ invalid_examples[1].user_id = 2
    /\ invalid_examples[10].user_id = 11

\* C14: evaluate_records processes exactly the first max_samples records when
\* max_samples > 0 and all records when max_samples = 0, issues exactly one
\* classifier call per processed record in record order with each call made
\* only after the previous response was received, and produces exactly one
\* ClassificationPoint per processed record, so the combined metrics total
\* equals the number of processed records.
C14_OneCallPerRecord ==
    LET processed ==
            IF max_samples > 0 /\ max_samples < Len(records)
            THEN max_samples ELSE Len(records)
        asked == { i \in DOMAIN api_log : api_log[i].kind = "request" }
        answers == { i \in DOMAIN api_log : api_log[i].kind = "response" }
    IN  /\ eval_pc # "ready" =>
             /\ Len(eval_records) = processed
             /\ \A i \in 1..processed : eval_records[i] = records[i]
        /\ \A i \in DOMAIN api_log :
             IF i % 2 = 1
             THEN /\ api_log[i].kind = "request"
                  /\ (i + 1) \div 2 <= Len(eval_records)
                  /\ api_log[i].messages = eval_records[(i + 1) \div 2].messages
             ELSE api_log[i].kind \in {"response", "error"}
        /\ Cardinality(asked) - Cardinality(answers)
             = (IF eval_pc \in {"waiting", "error"} THEN 1 ELSE 0)
        /\ Cardinality(answers) = eval_index
        /\ Len(eval_points) = eval_index
        /\ \A i \in DOMAIN eval_points :
             /\ eval_points[i].user_id = eval_records[i].user_id
             /\ eval_points[i].dataset_id = eval_records[i].dataset_id
             /\ eval_points[i].truth_label = eval_records[i].label
        /\ eval_pc = "done" =>
             /\ Cardinality(asked) = processed
             /\ Len(eval_points) = processed
             /\ eval_out.metrics.total = processed
             /\ eval_out.total_examples = processed

\* C14 witness: a finished run over the first three of twelve records.
C14_Witness ==
    /\ eval_pc = "done"
    /\ Len(records) = 12
    /\ max_samples = 3
    /\ Len(api_log) = 6
    /\ eval_out.metrics.total = 3

\* The sum of one metric over the dataset groups of a report.
RECURSIVE SumOverGroups(_, _, _)
SumOverGroups(groups, per_dataset, field) ==
    IF groups = {} THEN 0
    ELSE LET d == CHOOSE x \in groups : TRUE
         IN  per_dataset[d][field] + SumOverGroups(groups \ {d}, per_dataset, field)

\* C23: in the report of evaluate_records the per-dataset metrics partition
\* the combined metrics: every point is counted in exactly one dataset group,
\* that of its dataset_id, and for each of total, bots, humans, tp, tn, fp, fn,
\* score and max_score the per-dataset values sum to the combined value.
C23_PerDatasetPartition ==
    eval_pc = "done" =>
        LET per_dataset == eval_out.per_dataset_metrics
            groups == DOMAIN per_dataset
            in_group(d) == { i \in DOMAIN eval_points : eval_points[i].dataset_id = d }
            bots_of(d) == { i \in in_group(d) : eval_points[i].truth_label = "BOT" }
            flagged(d) == { i \in in_group(d) : eval_points[i].predicted_label = "BOT" }
        IN  /\ groups = { eval_points[i].dataset_id : i \in DOMAIN eval_points }
            /\ \A i \in DOMAIN eval_points :
                 Cardinality({ d \in groups : i \in in_group(d) }) = 1
            /\ \A d \in groups :
                 /\ per_dataset[d].total = Cardinality(in_group(d))
                 /\ per_dataset[d].bots = Cardinality(bots_of(d))
                 /\ per_dataset[d].humans = Cardinality(in_group(d) \ bots_of(d))
                 /\ per_dataset[d].tp = Cardinality(bots_of(d) \cap flagged(d))
                 /\ per_dataset[d].fp = Cardinality(flagged(d) \ bots_of(d))
            /\ \A field \in { "total", "bots", "humans", "tp", "tn", "fp", "fn",
                              "score", "max_score" } :
                 SumOverGroups(groups, per_dataset, field) = eval_out.metrics[field]

\* C23 witness: twelve records of two datasets were evaluated, and each
\* dataset group has a detected bot; one group has a false positive.
C23_Witness ==
    /\ eval_pc = "done"
    /\ Len(eval_points) = 12
    /\ DOMAIN eval_out.per_dataset_metrics = {30, 31}
    /\ eval_out.per_dataset_metrics[30].tp = 2
    /\ eval_out.per_dataset_metrics[31].tp = 1
    /\ eval_out.per_dataset_metrics[31].fp >= 1
    /\ eval_out.metrics.total = 12
    /\ eval_out.metrics.tp = 3

\* C24: the predicted_bot_ids returned by evaluate_records are exactly the
\* user ids of the processed records whose predicted label is BOT, in record
\* order; their number equals tp + fp of the combined metrics, and a record
\* whose classifier output was invalid never appears among them.
C24_PredictedBotIds ==
    LET flagged == { k \in DOMAIN eval_points :
                        eval_points[k].predicted_label = "BOT" }
        invalid == InvalidRecords
    IN  /\ Len(predicted_bot_ids) = Cardinality(flagged)
        /\ \A k \in flagged :
             predicted_bot_ids[Cardinality({ i \in flagged : i <= k })]
                = eval_records[k].user_id
        /\ \A k \in invalid :
             \A j \in DOMAIN predicted_bot_ids :
                predicted_bot_ids[j] # eval_records[k].user_id
        /\ eval_pc = "done" =>
             /\ eval_out.predicted_bot_ids = predicted_bot_ids
             /\ Len(eval_points) = Len(eval_records)
             /\ Len(eval_out.predicted_bot_ids)
                  = eval_out.metrics.tp + eval_out.metrics.fp

\* C24 witness: of twelve records the first is answered with an invalid text,
\* the second (a human) and the third (a bot) with BOT, the others with an
\* empty text but the last: the ids returned are 2, 3 and 12.
C24_Witness ==
    /\ eval_pc = "done"
    /\ Len(eval_points) = 12
    /\ 1 \in InvalidRecords
    /\ RawOutput(1) # <<>>
    /\ eval_out.predicted_bot_ids = <<2, 3, 12>>
    /\ eval_out.metrics.tp = 2
    /\ eval_out.metrics.fp = 1

-----------------------------------------------------------------------------
(* Claims about load_examples (SpecLoad) *)

\* C15: load_examples over any list of dataset ids either returns one example
\* per user with all user_ids distinct, sorted by user_id ascending, or, when
\* a user id occurs twice among the requested datasets or a dataset or
\* bot-label file is missing, raises an error and returns no examples at all
\* (never a partial list).
C15_LoadAllOrNothing ==
    load_pc = "done" =>
        LET listed == { <<p, q>> \in (DOMAIN load_ids) \X (1..(MaxFileUsers + 1)) :
                          q <= Len(disk[load_ids[p]].users) }
            uid(o) == disk[load_ids[o[1]]].users[o[2]]
            missing == \E p \in DOMAIN load_ids :
                          \/ ~disk[load_ids[p]].json_exists
                          \/ ~disk[load_ids[p]].bots_exists
            twice == \E o1, o2 \in listed : o1 # o2 /\ uid(o1) = uid(o2)
            out == load_out.examples
        IN  /\ load_out.error # "none" <=> (missing \/ twice)
            /\ load_out.error # "none" => out = <<>>
            /\ load_out.error = "none" =>
                 /\ Len(out) = Cardinality(listed)
                 /\ \A i, j \in DOMAIN out : i < j => out[i].user_id < out[j].user_id
                 /\ \A o \in listed :
                      \E i \in DOMAIN out :
                         /\ out[i].user_id = uid(o)
                         /\ out[i].dataset_id = load_ids[o[1]]
                         /\ out[i].lang = disk[load_ids[o[1]]].lang
                         /\ out[i].label = "BOT" <=> uid(o) \in disk[load_ids[o[1]]].bots
                         /\ out[i].label \in Labels

\* C15 witness: datasets 31 and 30 are loaded in this order, dataset 30
\* listing user 3 before user 1: the three examples come back as 1, 2, 3.
C15_Witness ==
    /\ load_pc = "done"
    /\ load_ids = <<31, 30>>
    /\ disk[30].users = <<3, 1>>
    /\ disk[31].users = <<2>>
    /\ load_out.error = "none"
    /\ Len(load_out.examples) = 3
    /\ load_out.examples[1].user_id = 1
    /\ load_out.examples[3].dataset_id = 30

-----------------------------------------------------------------------------
(* Claims about wait_for_fine_tuning_job (SpecWaitLive) *)

\* The job at the remote service has ended.
JobEnded == job_status \in {"succeeded", "failed", "cancelled"}

\* C16: wait_for_fine_tuning_job returns only a job whose observed status is
\* succeeded, failed or cancelled; while the observed status is non-terminal
\* it keeps polling with a sleep of poll_seconds between polls, and when no
\* maximum wait is configured (max_wait_minutes = 0) it never raises a
\* timeout, so it returns if and only if the job eventually reaches a
\* terminal status.
C16_WaitReturnsTerminal ==
    /\ [](wait_pc = "returned" =>
            /\ observed \in {"succeeded", "failed", "cancelled"}
            /\ job_status = observed)
    /\ [](max_wait_minutes = 0 => wait_pc # "timeout")
    /\ [][(wait_pc = "poll" /\ wait_pc' # "poll" /\ ~JobEnded) =>
            /\ wait_pc' \in {"sleep", "timeout"}
            /\ max_wait_minutes = 0 => wait_pc' = "sleep"]_vars
    /\ [][(wait_pc = "sleep" /\ wait_pc' # "sleep") =>
            /\ wait_pc' = "poll"
            /\ clock' = clock + poll_seconds \/ clock' = MaxClock]_vars
    /\ [][(wait_pc # "poll" /\ wait_pc' = "poll") => wait_pc = "sleep"]_vars
    /\ (max_wait_minutes = 0 /\ JobEnded) ~> (wait_pc = "returned")
    /\ (max_wait_minutes = 0 /\ [](~JobEnded)) => [](wait_pc # "returned")

\* C16 witness: without a maximum wait, the job was returned as succeeded
\* after at least two sleeps.
C16_Witness ==
    /\ wait_pc = "returned"
    /\ max_wait_minutes = 0
    /\ observed = "succeeded"
    /\ clock >= 2 * poll_seconds

\* C17: when a maximum wait is configured (max_wait_minutes > 0) and the job
\* stays non-terminal, wait_for_fine_tuning_job eventually raises a timeout
\* instead of polling forever; the timeout is raised only after a poll that
\* observed a non-terminal status with elapsed time at or past the maximum (a
\* poll that observes a terminal status returns the job even if the wait has
\* elapsed), and no cancellation request is sent to the remote service.
C17_WaitTimesOut ==
    /\ (max_wait_minutes > 0 /\ [](~JobEnded)) => <>(wait_pc = "timeout")
    /\ (max_wait_minutes > 0) ~> (wait_pc \in {"timeout", "returned"})
    /\ [](wait_pc = "timeout" =>
            /\ max_wait_minutes > 0
            /\ observed \notin {"succeeded", "failed", "cancelled"}
            /\ clock >= 60 * max_wait_minutes)
    /\ [][(wait_pc # "timeout" /\ wait_pc' = "timeout") =>
            /\ wait_pc = "poll"
            /\ ~JobEnded
            /\ observed' = job_status
            /\ "retrieve" \in requests']_vars
    /\ [][(wait_pc = "poll" /\ wait_pc' # "poll" /\ JobEnded) =>
            wait_pc' = "returned"]_vars
    /\ [](requests \subseteq {"retrieve"})
    /\ [][job_status' # job_status => UNCHANGED <<wait_pc, observed, requests>>]_vars

\* C17 witness: with a maximum wait of two minutes the job was still running
\* at a poll 120 seconds or more after the start, and the timeout was raised.
C17_Witness ==
    /\ wait_pc = "timeout"
    /\ max_wait_minutes = 2
    /\ observed = "running"
    /\ clock >= 120

-----------------------------------------------------------------------------
(* Claims about run_cv and train_final (SpecTrain) *)

\* C18: in run_cv and train_final (when waiting), a job that ends with
\* terminal status failed or cancelled, or that ends succeeded without a
\* fine-tuned model identifier, always surfaces a fatal RemoteJobFailure error
\* (the code's RuntimeError) to the caller; no evaluation is run and no model
\* is recorded as a fold's tuned_model or as the final model for such a job.
C18_JobFailureIsFatal ==
    LET bad(j) == \/ j.status \in {"failed", "cancelled"}
                  \/ j.status = "succeeded" /\ j.fine_tuned_model \in {"None", ""}
    IN  /\ \A k \in DOMAIN jobs :
             bad(jobs[k].job) =>
               /\ train_pc = "error"
               /\ train_error = "RuntimeError"
               /\ k = Len(jobs)
               /\ \A e \in DOMAIN evaluations : evaluations[e].split # jobs[k].split
               /\ \A r \in DOMAIN fold_reports :
                    fold_reports[r].fold = jobs[k].split =>
                      /\ "tuned_model" \notin DOMAIN fold_reports[r]
                      /\ "tuned_eval" \notin DOMAIN fold_reports[r]
               /\ <<"cv_run", jobs[k].split>> \in DOMAIN run_files =>
                    "tuned_model" \notin DOMAIN run_files[<<"cv_run", jobs[k].split>>]
               /\ <<"final", "job">> \in DOMAIN run_files =>
                    "fine_tuned_model" \notin DOMAIN run_files[<<"final", "job">>]
               /\ <<"artifacts", "final_model.txt">> \notin DOMAIN run_files
               /\ <<"final", "final_model.txt">> \notin DOMAIN run_files
               /\ <<"cv_run", "summary">> \notin DOMAIN run_files
               /\ registry \in RegistryFiles
        /\ \A e \in DOMAIN evaluations :
             \E k \in DOMAIN jobs :
                /\ jobs[k].split = evaluations[e].split
                /\ ~bad(jobs[k].job)
        /\ \A r \in DOMAIN fold_reports :
             "tuned_model" \in DOMAIN fold_reports[r] =>
                \E k \in DOMAIN jobs :
                   /\ jobs[k].split = fold_reports[r].fold
                   /\ jobs[k].job.status = "succeeded"
                   /\ jobs[k].job.fine_tuned_model = fold_reports[r].tuned_model
                   /\ fold_reports[r].tuned_model = "ft:model"
        /\ <<"final", "final_model.txt">> \in DOMAIN run_files =>
             /\ jobs[1].job.status = "succeeded"
             /\ run_files[<<"final", "final_model.txt">>] = "ft:model"
             /\ registry.latest_final_model = jobs[1].job.fine_tuned_model

\* C18 witness: run_cv evaluated fold_a, then fold_b's job ended succeeded
\* with an empty fine_tuned_model, and RuntimeError was raised.
C18_Witness ==
    /\ command = "run_cv"
    /\ train_pc = "error"
    /\ train_error = "RuntimeError"
    /\ Len(jobs) = 2
    /\ jobs[2].job.status = "succeeded"
    /\ jobs[2].job.fine_tuned_model = ""
    /\ Len(evaluations) = 2
    /\ Len(fold_reports) = 1

\* C27: every cv_runs entry in the model registry describes a completed CV
\* run: in every reachable registry state, each fold listed in each cv_runs
\* entry has status succeeded and a tuned model identifier (no entry is
\* recorded for a run whose fold jobs were only submitted or did not finish).
C27_CvRunsCompleted ==
    LET cv_runs == LoadRegistry(registry).cv_runs
    IN  \A r \in DOMAIN cv_runs :
            \A f \in DOMAIN cv_runs[r].folds :
                /\ cv_runs[r].folds[f].status = "succeeded"
                /\ cv_runs[r].folds[f].tuned_model \notin {"None", ""}

\* C27 failing run: run_cv with no_wait submitted the jobs of both folds and
\* returned; the registry has a cv_runs entry whose folds are only submitted
\* and have no tuned model.
C27_FailingRun ==
    /\ command = "run_cv"
    /\ no_wait
    /\ train_pc = "done"
    /\ jobs = <<>>
    /\ LET cv_runs == registry.cv_runs
           entry == cv_runs[Len(cv_runs)]
       IN  /\ entry.run_id = "cv-new"
           /\ Len(entry.folds) = 2
           /\ \A f \in DOMAIN entry.folds :
                /\ entry.folds[f].status = "submitted"
                /\ entry.folds[f].tuned_model = "None"

\* C28: a fatal error in run_cv halts the whole command: if a fold's required
\* split file is missing, its job ends with a non-success status or without a
\* model, or polling times out, then no fine-tuning job is submitted for any
\* later fold, no CV summary is written and the model registry is left
\* unchanged.
C28_FatalErrorHalts ==
    LET fold_names == [i \in DOMAIN PAIR_FOLDS |-> PAIR_FOLDS[i].name]
        failed_job == jobs # <<>> /\
                      (\/ jobs[Len(jobs)].job.status # "succeeded"
                       \/ jobs[Len(jobs)].job.fine_tuned_model \in {"None", ""})
        missing_now == /\ fold_index < Len(fold_names)
                       /\ missing_file = fold_names[fold_index + 1]
                       /\ train_pc # "fold"
        fatal == train_error # "none" \/ failed_job \/ missing_now
    IN  command = "run_cv" =>
          /\ fatal =>
               /\ train_pc = "error"
               /\ train_error \in {"FileNotFoundError", "RuntimeError", "TimeoutError"}
               /\ \A i \in DOMAIN fold_names :
                    i > fold_index + 1 => \A s \in DOMAIN submitted :
                                             submitted[s] # fold_names[i]
               /\ train_error = "FileNotFoundError" =>
                    \A s \in DOMAIN submitted : submitted[s] # fold_names[fold_index + 1]
               /\ <<"cv_run", "summary">> \notin DOMAIN run_files
               /\ registry \in RegistryFiles
               /\ ~ENABLED NextTrain
          /\ (train_error = "FileNotFoundError") <=> missing_now
          /\ (train_error = "RuntimeError") <=> failed_job
          /\ train_pc = "error" <=> train_error # "none"

\* C28 witness: run_cv waited for fold_a, whose job was cancelled; fold_b was
\* never submitted, no summary exists and the registry file is the one found
\* at the start.
C28_Witness ==
    /\ command = "run_cv"
    /\ train_pc = "error"
    /\ train_error = "RuntimeError"
    /\ submitted = <<"fold_a">>
    /\ jobs[1].job.status = "cancelled"
    /\ <<"cv_run", "fold_a">> \in DOMAIN run_files
    /\ <<"cv_run", "summary">> \notin DOMAIN run_files
    /\ registry = NoFiles

-----------------------------------------------------------------------------
(* Claims about the model registry (SpecRegistry) *)

\* a is an initial part of b.
IsPrefixOf(a, b) == Len(a) <= Len(b) /\ SubSeq(b, 1, Len(a)) = a

\* The invocations that have written the registry.
SavedBy(cmd) == { p \in Invocations : reg_cmd[p] = cmd /\ reg_pc[p] = "saved" }

\* C25: the model registry is append-only under serialized use: after any
\* sequence of run_cv and train_final invocations run one at a time, every
\* entry previously in cv_runs and final_jobs is still present, unchanged and
\* in the same order; a completed run_cv adds exactly one cv_runs entry and
\* leaves final_jobs and latest_final_model unchanged, and a successful
\* waited train_final adds exactly one final_jobs entry, leaves cv_runs
\* unchanged and sets latest_final_model to that job's fine-tuned model.
C25_RegistryAppendOnly ==
    /\ [](serialized =>
            LET reg == LoadRegistry(reg_file)
                old_cv == { i \in DOMAIN reg.cv_runs : reg.cv_runs[i].run_id = "cv-old" }
                old_final == { i \in DOMAIN reg.final_jobs :
                                 reg.final_jobs[i].fine_tuned_model = "ft:old" }
            IN  /\ old_cv \in {{}, {1}} /\ old_final \in {{}, {1}}
                /\ Len(reg.cv_runs) = Cardinality(old_cv) + Cardinality(SavedBy("run_cv"))
                /\ Len(reg.final_jobs) =
                     Cardinality(old_final) + Cardinality(SavedBy("train_final"))
                /\ \A p \in SavedBy("run_cv") :
                     \E i \in DOMAIN reg.cv_runs : reg.cv_runs[i] = CvRunEntry(p)
                /\ \A p \in SavedBy("train_final") :
                     \E i \in DOMAIN reg.final_jobs : reg.final_jobs[i] = FinalJobEntry(p))
    /\ [][serialized =>
            LET old == LoadRegistry(reg_file)
                new == LoadRegistry(reg_file')
                saving == { p \in Invocations :
                              reg_pc[p] = "loaded" /\ reg_pc'[p] = "saved" }
            IN  /\ IsPrefixOf(old.cv_runs, new.cv_runs)
                /\ IsPrefixOf(old.final_jobs, new.final_jobs)
                /\ saving = {} => reg_file' = reg_file
                /\ \A p \in saving :
                     IF reg_cmd[p] = "run_cv"
                     THEN /\ new.cv_runs = Append(old.cv_runs, CvRunEntry(p))
                          /\ new.final_jobs = old.final_jobs
                          /\ new.latest_final_model = old.latest_final_model
                     ELSE /\ new.final_jobs = Append(old.final_jobs, FinalJobEntry(p))
                          /\ new.cv_runs = old.cv_runs
                          /\ new.latest_final_model = TunedModels[p]
       ]_vars

\* C25 witness: on a registry that had one entry of each kind, a run_cv and
\* then a train_final were run one after the other: two cv_runs, two
\* final_jobs, the old entries first, and the latest model is the new one.
C25_Witness ==
    /\ serialized
    /\ reg_cmd[1] = "run_cv" /\ reg_cmd[2] = "train_final"
    /\ reg_pc[1] = "saved" /\ reg_pc[2] = "saved"
    /\ reg_file.cv_runs[1].run_id = "cv-old"
    /\ reg_file.cv_runs[2] = CvRunEntry(1)
    /\ reg_file.final_jobs[1].fine_tuned_model = "ft:old"
    /\ reg_file.final_jobs[2] = FinalJobEntry(2)
    /\ reg_file.latest_final_model = "ft:2"
    /\ reg_mem[2].cv_runs = reg_file.cv_runs

\* The registry file or local registry reg holds the entry appended by
\* invocation p.
HasEntryOf(reg, p) ==
    LET r == LoadRegistry(reg)
    IN  IF reg_cmd[p] = "run_cv"
        THEN \E i \in DOMAIN r.cv_runs : r.cv_runs[i] = CvRunEntry(p)
        ELSE \E i \in DOMAIN r.final_jobs : r.final_jobs[i] = FinalJobEntry(p)

\* Invocations p and q have both written, and each had read the file before
\* the other wrote it.
BothReadBeforeEitherWrote(p, q) ==
    /\ reg_pc[p] = "saved" /\ reg_pc[q] = "saved"
    /\ ~HasEntryOf(reg_mem[p], q)
    /\ ~HasEntryOf(reg_mem[q], p)

\* C26: concurrent pipeline invocations against the same registry are unsafe:
\* each update is read-entire-file, mutate in memory, write-entire-file with
\* no lock, so whenever two invocations have both read before either writes,
\* the registry afterwards is missing the entry appended by one of them; the
\* file is always the local registry of the invocation that wrote last.
\* Invocations run one at a time never get there.
C26_LostUpdate ==
    /\ \A p \in Invocations : \A q \in Invocations \ {p} :
         /\ BothReadBeforeEitherWrote(p, q) =>
              /\ ~serialized
              /\ ~(HasEntryOf(reg_file, p) /\ HasEntryOf(reg_file, q))
         /\ reg_pc[p] = "loaded" /\ HasEntryOf(reg_file, q) /\ ~HasEntryOf(reg_mem[p], q)
              => /\ ~serialized
                 /\ ENABLED RegSave(p)
    /\ (\E p \in Invocations : reg_pc[p] = "saved") =>
         \E p \in Invocations : reg_pc[p] = "saved" /\ reg_file = reg_mem[p]

\* C26 witness: two invocations of run_cv both read the registry, then 1 and
\* then 2 wrote it: the file has the entry of 2 and not the entry of 1.
C26_Witness ==
    /\ ~serialized
    /\ reg_cmd[1] = "run_cv" /\ reg_cmd[2] = "run_cv"
    /\ BothReadBeforeEitherWrote(1, 2)
    /\ reg_file = reg_mem[2]
    /\ HasEntryOf(reg_file, 2)
    /\ ~HasEntryOf(reg_file, 1)
    /\ HasEntryOf(reg_mem[1], 1)

=============================================================================
